---- MODULE Spec2Model ----
(***************************************************************************)
(* A model of dhcp-proxy-ipxe: the startup of Server.Run, the supervisor   *)
(* runComponents with its listeners, the HTTP server's graceful shutdown,  *)
(* the DHCP proxy's per-packet decision and the iPXE HTTP handler.         *)
(*                                                                         *)
(* Go strings that the code only compares or concatenates are TLA+         *)
(* strings.  A string the code splits (the extra kernel args) is a         *)
(* sequence of chunks, each either a run of white space (" ") or a run of  *)
(* other characters.  An error is a string, Nil the nil error.             *)
(***************************************************************************)
EXTENDS Integers, Sequences, FiniteSets, TLC

----------------------------------------------------------------------------
(* Bounds of the model *)

\* HTTP connections that may be active at the same time
MaxInflight == 2
\* packets the DHCP proxy handles in one run
MaxPackets == 3
\* requests the iPXE handler serves in one run
MaxRequests == 2

----------------------------------------------------------------------------
(* Values *)

Nil == "nil"

NoValue == [set |-> FALSE]

Range(s) == {s[i] : i \in DOMAIN s}

\* fmt.Errorf("<prefix>: %w", err)
Wrap(prefix, err) == prefix \o ": " \o err

\* strconv.Itoa, and {{ .Port }} of text/template
Itoa(n) == ToString(n)

RECURSIVE Join(_, _)
\* strings.Join; also how %v prints the elements of a []string
Join(elems, sep) ==
    IF Len(elems) = 0 THEN ""
    ELSE IF Len(elems) = 1 THEN elems[1]
    ELSE elems[1] \o sep \o Join(Tail(elems), sep)

\* net.JoinHostPort for an IPv4 host
JoinHostPort(host, port) == host \o ":" \o port

----------------------------------------------------------------------------
(* Options of the server (server.Options, DefaultOptions, the flags) *)

DefaultAPIPort == 50084

DefaultOptions ==
    [ ImageFactoryBaseURL |-> "https://factory.talos.dev",
      ImageFactoryPXEBaseURL |-> "https://pxe.factory.talos.dev",
      APIListenAddress |-> "",
      APIAdvertiseAddress |-> "",
      DHCPProxyIfaceOrIP |-> "",
      TalosVersion |-> "v1.10.5",
      Extensions |-> <<"siderolabs/hello-world-service">>,
      ExtraKernelArgs |-> << >>,
      OmniSiderolinkAPIURL |-> "",
      APIPort |-> DefaultAPIPort,
      DisableDHCPProxy |-> FALSE,
      SecureBootEnabled |-> FALSE ]

\* The values the flags give in the model.
AdvertiseChoices == {"", "10.0.0.5"}

SiderolinkURLChoices == {"", "https://omni.example?jointoken=t", "%zz"}

ExtraKernelArgsChoices == {<< >>, <<"a=1", " ", "b=2">>}

\* strings.Join(args, " ") on chunked strings
JoinArgs(args) ==
    IF Len(args) = 0 THEN << >>
    ELSE LET RECURSIVE joined(_)
             joined(i) == IF i = 1 THEN args[1]
                          ELSE joined(i - 1) \o <<" ">> \o args[i]
         IN joined(Len(args))

\* getExtraKernelArgs with the environment consulted before the flag.
getExtraKernelArgsEnvFirst(flag, env, args) ==
    IF env # << >> THEN env
    ELSE IF flag # << >> THEN flag
    ELSE IF Len(args) > 0 THEN JoinArgs(args)
    ELSE << >>

\* getExtraKernelArgs: flag is serverOptions.ExtraKernelArgs as the flag
\* parser left it, env the value of EXTRA_KERNEL_ARGS, args the positional
\* arguments; strings are sequences of chunks, the empty one being "".
getExtraKernelArgs(flag, env, args) ==
    IF flag # << >> THEN flag
    ELSE IF env # << >> THEN env
    ELSE IF Len(args) > 0 THEN JoinArgs(args)
    ELSE << >>

\* The command line and environment that leave o as the parsed options: the
\* extra kernel args given by the flag, if at all.
CmdLineOf(o) == [flag |-> o.ExtraKernelArgs, env |-> << >>, args |-> << >>]

\* What ip.RoutableIPs finds on the host: an error, or the addresses.
RoutableChoices ==
    { [err |-> Nil, ips |-> << >>],
      [err |-> Nil, ips |-> <<"10.0.0.7">>],
      [err |-> Nil, ips |-> <<"10.0.0.7", "192.168.1.2">>],
      [err |-> "netlink: permission denied", ips |-> << >>] }

----------------------------------------------------------------------------
(* Startup: the sequential part of Server.Run *)

\* determineAPIAdvertiseAddress taking the first routable address of several.
determineAPIAdvertiseAddressFirst(opts, routable) ==
    IF opts.APIAdvertiseAddress # ""
    THEN [addr |-> opts.APIAdvertiseAddress, err |-> Nil]
    ELSE IF routable.err # Nil
    THEN [addr |-> "", err |-> Wrap("failed to get routable IPs", routable.err)]
    ELSE IF Len(routable.ips) < 1
    THEN [addr |-> "", err |-> "no routable IP. specify API advertise address explicitly"]
    ELSE [addr |-> routable.ips[1], err |-> Nil]

\* Server.determineAPIAdvertiseAddress
determineAPIAdvertiseAddress(opts, routable) ==
    IF opts.APIAdvertiseAddress # ""
    THEN [addr |-> opts.APIAdvertiseAddress, err |-> Nil]
    ELSE IF routable.err # Nil
    THEN [addr |-> "", err |-> Wrap("failed to get routable IPs", routable.err)]
    ELSE IF Len(routable.ips) # 1
    THEN [addr |-> "",
          err |-> "expected exactly one routable IP, got "
                    \o Itoa(Len(routable.ips))
                    \o ": [" \o Join(routable.ips, " ") \o "]"
                    \o ". specify API advertise address explicitly"]
    ELSE [addr |-> routable.ips[1], err |-> Nil]

siderolinkAddress == "fdae:41e4:649b:9303::1"

DefaultOmniEventsPort == 8090

DefaultOmniKmsgLogPort == 8092

\* url.Parse as machineconfig.Build uses it: the model's one URL it rejects.
URLParses(u) == u # "%zz"

\* machineconfig.Build: the three documents, encoded.
MachineConfigBuild(url) ==
    IF ~URLParses(url)
    THEN [bytes |-> "", err |-> Wrap("failed to parse API URL", "invalid URL escape")]
    ELSE [bytes |-> "apiUrl: " \o url \o "\n---\n"
                       \o "endpoint: " \o "[" \o siderolinkAddress \o "]:"
                       \o Itoa(DefaultOmniEventsPort) \o "\n---\n"
                       \o "name: omni-kmsg\n"
                       \o "url: tcp://" \o "[" \o siderolinkAddress \o "]:"
                       \o Itoa(DefaultOmniKmsgLogPort) \o "\n",
          err |-> Nil]

IPXEURLPath == "ipxe"

initScriptName == "init.ipxe"

bootScriptName == "boot.ipxe"

\* buildInitScript: bootTemplate with .Endpoint, .Port and .ScriptPath filled in.
\* The template's text before and after its one line with substitution points
\* is abridged to its first and last lines.
buildInitScript(endpoint, port) ==
    "#!ipxe\n"
        \o "prompt --key 0x02 --timeout 2000 Press Ctrl-B for the iPXE command line... && shell ||\n"
        \o "\tchain --replace http://" \o endpoint \o ":" \o Itoa(port) \o "/"
        \o IPXEURLPath \o "/" \o bootScriptName
        \o "?uuid=${uuid}&mac=${net${idx}/mac:hexhyp}&domain=${domain}"
        \o "&hostname=${hostname}&serial=${serial}&arch=${buildarch} || goto next_iface\n"
        \o "\treboot\n"

\* A []byte: a view of the first len elements of a backing array.  The
\* rendered script is one element of the array, every byte of spare capacity
\* or of padding one element more.
MakeSlice(bytes, spare) ==
    [array |-> <<bytes>> \o [i \in 1..spare |-> "?"], len |-> 1]

\* The bytes a slice shows.
Bytes(s) == Join(SubSeq(s.array, 1, s.len), "")

\* append(s, bytes.Repeat([]byte{'\n'}, n)...): the slice append returns, and
\* the backing array of s afterwards; append writes in place when the capacity
\* of s suffices and into a new array when it does not.
AppendNewlines(s, n) ==
    IF s.len + n <= Len(s.array)
    THEN LET written == [i \in 1..Len(s.array) |->
                            IF i > s.len /\ i <= s.len + n THEN "\n" ELSE s.array[i]]
         IN [slice |-> [array |-> written, len |-> s.len + n], array |-> written]
    ELSE [slice |-> [array |-> SubSeq(s.array, 1, s.len) \o [i \in 1..n |-> "\n"],
                     len |-> s.len + n],
          array |-> s.array]

\* patchScript from the computed length of the placeholder region on: the
\* bytes copied over the region, and the backing array of the caller's script
\* afterwards.
PadToRegion(script, length) ==
    IF Len(Bytes(script)) > length
    THEN [err |-> "script size " \o Itoa(Len(Bytes(script)))
                    \o " is larger than placeholder space " \o Itoa(length),
          region |-> "", array |-> script.array]
    ELSE LET padded == AppendNewlines(script, length - Len(Bytes(script)))
         IN [err |-> Nil, region |-> Bytes(padded.slice), array |-> padded.array]

\* patchBinaries: its steps in order, each named by the file it writes.
PatchSteps ==
    << "ipxe.efi", "ipxe-arm64.efi", "snp.efi", "snp-arm64.efi",
       "undionly.kpxe.bin.patched", "undionly.kpxe", "undionly.kpxe.0" >>

\* What patchBinaries wraps the error of each step in.
PatchStepErrors ==
    << "failed to patch \"ipxe\"", "failed to patch \"ipxe\"",
       "failed to patch \"snp\"", "failed to patch \"snp\"",
       "failed to patch undionly.kpxe.bin",
       "failed to compress undionly.kpxe", "failed to compress undionly.kpxe.0" >>

\* The error of a step the host makes fail: patchScript cannot read its source,
\* zbin exits with a status other than 0.
StepFailure(i) ==
    IF i <= 5 THEN "open " \o PatchSteps[i] \o ": no such file or directory"
    ELSE "zbin failed with exit code 1, stderr: "

\* patchBinaries going on with the next artifact when one failed: the error it
\* returns is still the first one.
patchBinariesContinue(initScript, failAt, env) ==
    LET padded == PadToRegion(initScript, env.space)
        stop == IF padded.err # Nil THEN 1 ELSE failAt
        done == IF padded.err # Nil THEN {}
                ELSE {i \in 1..Len(PatchSteps) : i # failAt}
    IN [ written |-> {[file |-> PatchSteps[i], script |-> padded.region] : i \in done},
         array |-> IF done # {} THEN padded.array ELSE initScript.array,
         err |-> IF stop = 0 THEN Nil
                 ELSE IF padded.err # Nil
                 THEN Wrap(PatchStepErrors[stop], padded.err)
                 ELSE Wrap(PatchStepErrors[stop], StepFailure(stop)) ]

\* patchBinaries(initScript) on a host whose binaries have a placeholder region
\* of env.space bytes and where step failAt fails (0: none does).  written: the
\* outputs completed, each holding the region patchScript filled; array: the
\* backing array of initScript afterwards.
patchBinaries(initScript, failAt, env) ==
    LET padded == PadToRegion(initScript, env.space)
        stop == IF padded.err # Nil THEN 1 ELSE failAt
        n == IF stop = 0 THEN Len(PatchSteps) ELSE stop - 1
    IN [ written |-> {[file |-> PatchSteps[i], script |-> padded.region] : i \in 1..n},
         array |-> IF n >= 1 THEN padded.array ELSE initScript.array,
         err |-> IF stop = 0 THEN Nil
                 ELSE IF padded.err # Nil
                 THEN Wrap(PatchStepErrors[stop], padded.err)
                 ELSE Wrap(PatchStepErrors[stop], StepFailure(stop)) ]

\* strings.Fields on a chunked string
Fields(s) == SelectSeq(s, LAMBDA c : c # " ")

KernelParamConfig == "talos.config"

\* NewHandler given the option as the flag set it, not the resolved address.
HandlerOptionsOfFlag(opts, apiAdvertiseAddress) ==
    [ APIAdvertiseAddress |-> opts.APIAdvertiseAddress,
      APIPort |-> opts.APIPort,
      Extensions |-> opts.Extensions,
      ExtraKernelArgs |-> opts.ExtraKernelArgs,
      TalosVersion |-> opts.TalosVersion ]

\* The advertise address and port NewHandler is given (Server.Run, the
\* ipxe.HandlerOptions literal).
HandlerOptionsOf(opts, apiAdvertiseAddress) ==
    [ APIAdvertiseAddress |-> apiAdvertiseAddress,
      APIPort |-> opts.APIPort,
      Extensions |-> opts.Extensions,
      ExtraKernelArgs |-> opts.ExtraKernelArgs,
      TalosVersion |-> opts.TalosVersion ]

\* NewHandler putting the talos.config argument before the user's.
HandlerKernelArgsConfigFirst(configServerEnabled, hopts) ==
    LET kernelArgs == Fields(hopts.ExtraKernelArgs)
        apiHostPort == JoinHostPort(hopts.APIAdvertiseAddress, Itoa(hopts.APIPort))
        talosConfigURL == "http://" \o apiHostPort \o "/config?u=${uuid}"
    IN IF configServerEnabled
       THEN <<KernelParamConfig \o "=" \o talosConfigURL>> \o kernelArgs
       ELSE kernelArgs

\* NewHandler adding the talos.config argument whether or not the config
\* server is enabled.
HandlerKernelArgsAlways(configServerEnabled, hopts) ==
    LET kernelArgs == Fields(hopts.ExtraKernelArgs)
        apiHostPort == JoinHostPort(hopts.APIAdvertiseAddress, Itoa(hopts.APIPort))
        talosConfigURL == "http://" \o apiHostPort \o "/config?u=${uuid}"
    IN Append(kernelArgs, KernelParamConfig \o "=" \o talosConfigURL)

\* The kernel args NewHandler stores.
HandlerKernelArgs(configServerEnabled, hopts) ==
    LET kernelArgs == Fields(hopts.ExtraKernelArgs)
        apiHostPort == JoinHostPort(hopts.APIAdvertiseAddress, Itoa(hopts.APIPort))
        talosConfigURL == "http://" \o apiHostPort \o "/config?u=${uuid}"
    IN IF configServerEnabled
       THEN Append(kernelArgs, KernelParamConfig \o "=" \o talosConfigURL)
       ELSE kernelArgs

NoHandler ==
    [ imageFactoryClient |-> NoValue, kernelArgs |-> << >>,
      kernelArgsSpare |-> << >>,
      initScript |-> [array |-> << >>, len |-> 0],
      options |-> NoValue ]

\* imagefactory.NewClient
NewClient(baseURL, pxeBaseURL, secureBootEnabled) ==
    [ baseURL |-> baseURL,
      pxeBaseURL |-> pxeBaseURL,
      secureBootEnabled |-> secureBootEnabled ]

\* NewHandler keeping the script as patchScript padded it.
NewHandlerPadded(configServerEnabled, imageFactoryClient, hopts, failAt, env) ==
    LET initScript == MakeSlice(buildInitScript(hopts.APIAdvertiseAddress, hopts.APIPort),
                                env.spare)
        patched == patchBinaries(initScript, failAt, env)
        padded == AppendNewlines(initScript, env.space - Len(Bytes(initScript))).slice
    IN IF patched.err # Nil
       THEN [handler |-> NoHandler, written |-> patched.written, err |-> patched.err]
       ELSE [handler |-> [ imageFactoryClient |-> imageFactoryClient,
                           kernelArgs |-> HandlerKernelArgs(configServerEnabled, hopts),
                           kernelArgsSpare |-> [i \in 1..env.argsSpare |-> ""],
                           initScript |-> padded,
                           options |-> hopts ],
             written |-> patched.written,
             err |-> Nil]

\* ipxe.NewHandler
NewHandler(configServerEnabled, imageFactoryClient, hopts, failAt, env) ==
    LET initScript == MakeSlice(buildInitScript(hopts.APIAdvertiseAddress, hopts.APIPort),
                                env.spare)
        patched == patchBinaries(initScript, failAt, env)
    IN IF patched.err # Nil
       THEN [handler |-> NoHandler, written |-> patched.written, err |-> patched.err]
       ELSE [handler |-> [ imageFactoryClient |-> imageFactoryClient,
                           kernelArgs |-> HandlerKernelArgs(configServerEnabled, hopts),
                           kernelArgsSpare |-> [i \in 1..env.argsSpare |-> ""],
                           initScript |-> [array |-> patched.array, len |-> initScript.len],
                           options |-> hopts ],
             written |-> patched.written,
             err |-> Nil]

\* newMuxHandler registering /config whether or not it has a handler for it.
newMuxHandlerAlways(configHandlerSet) ==
    {"/config", "/" \o IPXEURLPath \o "/{script}", "/tftp/"}

\* newMuxHandler: the patterns registered on the multiplexer.
newMuxHandler(configHandlerSet) ==
    (IF configHandlerSet THEN {"/config"} ELSE {})
        \cup {"/" \o IPXEURLPath \o "/{script}", "/tftp/"}

\* The context server.New's BaseContext hands every request: the ctx Server.Run
\* was called with.
BaseContext == "root"

\* The proxy given the listen address for the address it advertises.
NewProxyListenAddress(opts, apiAdvertiseAddress, dhcpProxyIfaceOrIP) ==
    [ set |-> TRUE,
      advertiseIP |-> opts.APIListenAddress,
      apiPort |-> opts.APIPort,
      ifaceOrIP |-> dhcpProxyIfaceOrIP ]

NoProxy == [set |-> FALSE, advertiseIP |-> "", apiPort |-> 0, ifaceOrIP |-> ""]

\* dhcp.NewProxy(apiAdvertiseAddress, s.options.APIPort, dhcpProxyIfaceOrIP, ...)
NewProxy(opts, apiAdvertiseAddress, dhcpProxyIfaceOrIP) ==
    [ set |-> TRUE,
      advertiseIP |-> apiAdvertiseAddress,
      apiPort |-> opts.APIPort,
      ifaceOrIP |-> dhcpProxyIfaceOrIP ]

\* The components Server.Run hands runComponents, in order.
ComponentsOf(opts) ==
    IF opts.DisableDHCPProxy
    THEN <<"server", "TFTP server">>
    ELSE <<"server", "TFTP server", "DHCP proxy">>

\* Server.Run up to the call of runComponents: what it built, or its error.
Startup(opts, routable, failAt, env) ==
    LET adv == determineAPIAdvertiseAddress(opts, routable)
        dhcpProxyIfaceOrIP == IF opts.DHCPProxyIfaceOrIP = ""
                              THEN adv.addr ELSE opts.DHCPProxyIfaceOrIP
        configServerEnabled == opts.OmniSiderolinkAPIURL # ""
        mc == IF configServerEnabled
              THEN MachineConfigBuild(opts.OmniSiderolinkAPIURL)
              ELSE [bytes |-> "", err |-> Nil]
        imageFactoryClient == NewClient(opts.ImageFactoryBaseURL,
                                        opts.ImageFactoryPXEBaseURL,
                                        opts.SecureBootEnabled)
        nh == NewHandler(configServerEnabled, imageFactoryClient,
                         HandlerOptionsOf(opts, adv.addr), failAt, env)
        failed(e, w) == [ err |-> e, apiAdvertiseAddress |-> adv.addr,
                          handler |-> NoHandler, machineConfig |-> "",
                          routes |-> {}, proxy |-> NoProxy, components |-> << >>,
                          written |-> w ]
    IN IF adv.err # Nil
       THEN failed(Wrap("failed to determine API advertise address", adv.err), {})
       ELSE IF mc.err # Nil
       THEN failed(Wrap("failed to build machine config", mc.err), {})
       ELSE IF nh.err # Nil
       THEN failed(Wrap("failed to create iPXE handler", nh.err), nh.written)
       ELSE [ err |-> Nil,
              apiAdvertiseAddress |-> adv.addr,
              handler |-> nh.handler,
              machineConfig |-> mc.bytes,
              routes |-> newMuxHandler(configServerEnabled),
              proxy |-> IF opts.DisableDHCPProxy THEN NoProxy
                        ELSE NewProxy(opts, adv.addr, dhcpProxyIfaceOrIP),
              components |-> ComponentsOf(opts),
              written |-> nh.written ]

----------------------------------------------------------------------------
(* State *)

VARIABLES
    \* the host and the command line
    options,          \* server.Options after flag parsing
    cmdline,          \* flag: --extra-kernel-args; env: EXTRA_KERNEL_ARGS;
                      \* args: the positional arguments
    routable,         \* what ip.RoutableIPs returns on this host
    patchFailAt,      \* the step of patchBinaries that fails on this host, or 0
    patchEnv,         \* space: the bytes of the binaries' placeholder region;
                      \* spare: the spare capacity of the rendered script's buffer;
                      \* argsSpare: the spare capacity of the handler's kernelArgs
    \* one call of patchScript, byte by byte
    srcContents,      \* the bytes of the file at source
    scriptBytes,      \* the bytes of script
    dest,             \* the file at destination: whether it exists, and its bytes
    patchRet,         \* "pending", or what patchScript returned
    \* Server.Run
    runPc,            \* "init", "components" (in runComponents) or "returned"
    runResult,        \* the error Server.Run returned
    handler,          \* the ipxe.Handler NewHandler built
    machineConfig,    \* the bytes config.Handler serves
    routes,           \* the patterns registered on the HTTP mux
    dhcpProxy,        \* the proxy dhcp.NewProxy built
    components,       \* the components handed to runComponents
    tftpRoot,         \* the patched artifacts written
    \* runComponents
    started,          \* how many components eg.Go has started
    tpc,              \* per component: "absent", "running", "returned", "done"
    res,              \* per component: what comp.run returned
    retOrder,         \* the components in the order their comp.run returned
    rcCancelled,      \* cancel() of context.WithCancel was called
    egCancelled,      \* the errgroup cancelled its context
    egErr,            \* the error the errgroup recorded (errOnce)
    \* server.Server.Run (the HTTP server)
    lPc,              \* the ListenAndServe goroutine: "idle", "init", "serving", "done"
    lEnd,             \* how ListenAndServe ended: "", "closed" or "error"
    sPc,              \* the shutdownOnCancel goroutine: "idle", "waiting", "shutdown", "done"
    sRes,             \* what shutdownOnCancel returned
    hErr,             \* the error the HTTP server's errgroup recorded
    hCancelled,       \* the HTTP server's errgroup cancelled its context
    srvShutdown,      \* http.Server.Shutdown was called
    deadlineExpired,  \* the 5 s shutdown deadline was reached
    nBoot,            \* boot.ipxe requests inside the image-factory call
    nStatic,          \* other active connections (a /tftp/ download, a slow client)
    \* main
    sigCancelled,     \* SIGINT/SIGTERM cancelled the root context
    mainPc,           \* "parsed" (flags parsed, run not yet called), "running" or "exited"
    exitCode,
    sigAllRunning,    \* history: the signal arrived while all listeners were running
    sigInflight,      \* history: ... and requests were in flight then
    \* the DHCP proxy's packets
    dhcpLog,          \* per packet handled: the packet and the reply (or NoReply)
    \* the iPXE handler's requests
    httpLog,          \* per request served: the request, the factory call, the response
    \* the config handler's requests
    configLog,        \* per /config request: the request and the response
    \* boot.ipxe requests in the handler
    pending           \* per request past its kernel args, before its image-factory
                      \* call: the request and the slice of its kernel args

patchVars == <<srcContents, scriptBytes, dest, patchRet>>

hostVars == <<options, cmdline, routable, patchFailAt, patchEnv, patchVars>>

runVars == <<runPc, runResult, handler, machineConfig, routes, dhcpProxy,
             components, tftpRoot>>

rcVars == <<started, tpc, res, retOrder, rcCancelled, egCancelled, egErr>>

httpSrvVars == <<lPc, lEnd, sPc, sRes, hErr, hCancelled, srvShutdown, deadlineExpired>>

reqVars == <<nBoot, nStatic>>

mainVars == <<sigCancelled, mainPc, exitCode, sigAllRunning, sigInflight>>

logVars == <<dhcpLog, httpLog, configLog, pending>>

vars == <<hostVars, runVars, rcVars, httpSrvVars, reqVars, mainVars, logVars>>

AllComponents == {"server", "TFTP server", "DHCP proxy"}

\* The listeners whose Run is not the HTTP server's.
PlainComponents == {"TFTP server", "DHCP proxy"}

----------------------------------------------------------------------------
(* Contexts *)

\* Whether a context is done.  "root" is signal.NotifyContext's; "rc" is
\* runComponents' context.WithCancel(ctx); "eg" is its errgroup.WithContext,
\* which the components are run with; "http" is the errgroup.WithContext of
\* the HTTP server's Run; "background" is context.Background().
CtxDone(c) ==
    CASE c = "background" -> FALSE
      [] c = "root" -> sigCancelled
      [] c = "rc" -> sigCancelled \/ rcCancelled
      [] c = "eg" -> sigCancelled \/ rcCancelled \/ egCancelled
      [] c = "http" -> sigCancelled \/ rcCancelled \/ egCancelled \/ hCancelled

\* The context of a request: derived from BaseContext.
ReqCtxDone == CtxDone(BaseContext)

----------------------------------------------------------------------------
(* The supervisor: Server.Run, runComponents, the listeners, main *)

\* The length of the rendered script: the same for every address of the model.
ScriptLen == Len(buildInitScript("10.0.0.5", DefaultAPIPort))

\* Binaries whose placeholder region has room to spare, the script's buffer
\* having the capacity for the padding.
RoomyPatchEnv == [space |-> ScriptLen + 2, spare |-> 3, argsSpare |-> 0]

\* Binaries whose placeholder region is too small for the script.
SmallPatchEnv == [space |-> ScriptLen - 1, spare |-> 3, argsSpare |-> 0]

\* The same region, the buffer having no capacity to spare.
TightBufferPatchEnv == [space |-> ScriptLen + 2, spare |-> 0, argsSpare |-> 0]

\* A placeholder region of exactly the script's length.
ExactPatchEnv == [space |-> ScriptLen, spare |-> 3, argsSpare |-> 0]

\* A runtime whose strings.Fields and append leave the kernel args slice with
\* room for n more elements.
SpareArgsEnv(n) == [space |-> ScriptLen + 2, spare |-> 3, argsSpare |-> n]

\* The command lines and hosts of the supervisor's model.
SupOptions ==
    { [DefaultOptions EXCEPT !.APIAdvertiseAddress = a,
                             !.OmniSiderolinkAPIURL = u,
                             !.DisableDHCPProxy = d] :
        a \in AdvertiseChoices, u \in SiderolinkURLChoices, d \in BOOLEAN }

\* No file at the path.
NoFile == [exists |-> FALSE, bytes |-> << >>]

\* No call of patchScript is followed byte by byte.
IdlePatch ==
    /\ srcContents = << >>
    /\ scriptBytes = << >>
    /\ dest = NoFile
    /\ patchRet = "pending"

IdleRun ==
    /\ runPc = "init"
    /\ runResult = Nil
    /\ handler = NoHandler
    /\ machineConfig = ""
    /\ routes = {}
    /\ dhcpProxy = NoProxy
    /\ components = << >>
    /\ tftpRoot = {}

IdleSupervisor ==
    /\ started = 0
    /\ tpc = [t \in AllComponents |-> "absent"]
    /\ res = [t \in AllComponents |-> Nil]
    /\ retOrder = << >>
    /\ rcCancelled = FALSE
    /\ egCancelled = FALSE
    /\ egErr = Nil
    /\ lPc = "idle"
    /\ lEnd = ""
    /\ sPc = "idle"
    /\ sRes = Nil
    /\ hErr = Nil
    /\ hCancelled = FALSE
    /\ srvShutdown = FALSE
    /\ deadlineExpired = FALSE
    /\ nBoot = 0
    /\ nStatic = 0
    /\ sigCancelled = FALSE
    /\ mainPc = "running"
    /\ exitCode = 0
    /\ sigAllRunning = FALSE
    /\ sigInflight = FALSE

Init ==
    /\ options \in SupOptions
    /\ cmdline = CmdLineOf(options)
    /\ routable \in IF options.APIAdvertiseAddress = ""
                    THEN RoutableChoices
                    ELSE {r \in RoutableChoices : r.ips # << >> \/ r.err # Nil}
    /\ patchFailAt \in 0..Len(PatchSteps)
    /\ patchEnv \in {RoomyPatchEnv, SmallPatchEnv}
    /\ IdlePatch
    /\ IdleRun
    /\ IdleSupervisor
    /\ dhcpLog = << >>
    /\ httpLog = << >>
    /\ configLog = << >>
    /\ pending = << >>

\* Server.Run from its start to the call of runComponents.
Run ==
    /\ mainPc = "running"
    /\ runPc = "init"
    /\ \E b \in {Startup(options, routable, patchFailAt, patchEnv)} :
          /\ runPc' = IF b.err = Nil THEN "components" ELSE "returned"
          /\ runResult' = b.err
          /\ handler' = b.handler
          /\ machineConfig' = b.machineConfig
          /\ routes' = b.routes
          /\ dhcpProxy' = b.proxy
          /\ components' = b.components
          /\ tftpRoot' = b.written
    /\ UNCHANGED <<hostVars, rcVars, httpSrvVars, reqVars, mainVars, logVars>>

\* runComponents: eg.Go starts the next component's goroutine.
EgGo ==
    /\ mainPc = "running"
    /\ runPc = "components"
    /\ started < Len(components)
    /\ LET t == components[started + 1]
       IN /\ tpc' = [tpc EXCEPT ![t] = "running"]
          /\ lPc' = IF t = "server" THEN "init" ELSE lPc
          /\ sPc' = IF t = "server" THEN "waiting" ELSE sPc
    /\ started' = started + 1
    /\ UNCHANGED <<hostVars, runVars, res, retOrder, rcCancelled, egCancelled, egErr,
                   lEnd, sRes, hErr, hCancelled, srvShutdown, deadlineExpired,
                   reqVars, mainVars, logVars>>

\* The deferred cancel() placed on the error path only.
DeferredCancelOnError(r) == r # Nil

\* What the goroutine's "defer cancel()" does when comp.run returned r.
DeferredCancel(r) == TRUE

\* The goroutine of component t: comp.run returned r; the deferred cancel() runs
\* before the function returns to the errgroup.
Return(t, r) ==
    /\ tpc' = [tpc EXCEPT ![t] = "returned"]
    /\ res' = [res EXCEPT ![t] = r]
    /\ retOrder' = Append(retOrder, t)
    /\ rcCancelled' = (rcCancelled \/ DeferredCancel(r))

\* The error of a listener that fails on its own.
ListenError(t) == t \o ": listen: bind: address already in use"

\* A TFTP or DHCP listener fails on its own (its port cannot be bound, its
\* socket fails).
TaskFail(t) ==
    /\ mainPc = "running"
    /\ t \in PlainComponents
    /\ tpc[t] = "running"
    /\ Return(t, ListenError(t))
    /\ UNCHANGED <<hostVars, runVars, started, egCancelled, egErr, httpSrvVars,
                   reqVars, mainVars, logVars>>

\* A TFTP or DHCP listener ends cleanly on its own.
TaskExit(t) ==
    /\ mainPc = "running"
    /\ t \in PlainComponents
    /\ tpc[t] = "running"
    /\ ~CtxDone("eg")
    /\ Return(t, Nil)
    /\ UNCHANGED <<hostVars, runVars, started, egCancelled, egErr, httpSrvVars,
                   reqVars, mainVars, logVars>>

\* A TFTP or DHCP listener sees its context done and returns.
TaskStop(t) ==
    /\ mainPc = "running"
    /\ t \in PlainComponents
    /\ tpc[t] = "running"
    /\ CtxDone("eg")
    /\ Return(t, Nil)
    /\ UNCHANGED <<hostVars, runVars, started, egCancelled, egErr, httpSrvVars,
                   reqVars, mainVars, logVars>>

\* errgroup.Group.Go's wrapper: the goroutine's function has returned; a non-nil
\* error is recorded if it is the first (errOnce) and cancels the group's
\* context; then g.done().
EgRecord(t) ==
    /\ mainPc = "running"
    /\ tpc[t] = "returned"
    /\ tpc' = [tpc EXCEPT ![t] = "done"]
    /\ egErr' = IF res[t] # Nil /\ egErr = Nil THEN res[t] ELSE egErr
    /\ egCancelled' = (egCancelled \/ res[t] # Nil)
    /\ UNCHANGED <<hostVars, runVars, started, res, retOrder, rcCancelled,
                   httpSrvVars, reqVars, mainVars, logVars>>

\* A Wait that returns as soon as an error is recorded.
WaitReadyOnFirstError ==
    (\A t \in Range(components) : tpc[t] = "done") \/ egErr # Nil

\* eg.Wait() may return: every goroutine of the group is done.
WaitReady == \A t \in Range(components) : tpc[t] = "done"

\* runComponents: the loop is over and eg.Wait() returns; Server.Run returns
\* what runComponents returns.
Wait ==
    /\ mainPc = "running"
    /\ runPc = "components"
    /\ started = Len(components)
    /\ WaitReady
    /\ runPc' = "returned"
    /\ runResult' = IF egErr # Nil THEN Wrap("failed to run components", egErr) ELSE Nil
    /\ rcCancelled' = TRUE
    /\ UNCHANGED <<hostVars, handler, machineConfig, routes, dhcpProxy, components,
                   tftpRoot, started, tpc, res, retOrder, egCancelled, egErr,
                   httpSrvVars, reqVars, mainVars, logVars>>

----------------------------------------------------------------------------
(* The HTTP server's Run: two goroutines in an errgroup of their own *)

ErrServerClosed == "http: Server closed"

\* ListenAndServe's error returned without the ErrServerClosed exception.
ListenResultUnfiltered(err) ==
    IF err # Nil THEN Wrap("failed to run server", err) ELSE Nil

\* What the ListenAndServe goroutine returns when ListenAndServe returned err.
ListenResult(err) ==
    IF err # Nil /\ err # ErrServerClosed
    THEN Wrap("failed to run server", err)
    ELSE Nil

\* A goroutine of the HTTP server's errgroup returns r.
HRecord(r) ==
    /\ hErr' = IF r # Nil /\ hErr = Nil THEN r ELSE hErr
    /\ hCancelled' = (hCancelled \/ r # Nil)

\* The ListenAndServe goroutine ends: ListenAndServe returned err.
LReturn(err) ==
    /\ lPc' = "done"
    /\ lEnd' = IF err = ErrServerClosed THEN "closed" ELSE "error"
    /\ HRecord(ListenResult(err))
    /\ UNCHANGED <<hostVars, runVars, rcVars, sPc, sRes, srvShutdown, deadlineExpired,
                   reqVars, mainVars, logVars>>

\* ListenAndServe binds its port and serves.
ListenOK ==
    /\ mainPc = "running"
    /\ lPc = "init"
    /\ ~srvShutdown
    /\ lPc' = "serving"
    /\ UNCHANGED <<hostVars, runVars, rcVars, lEnd, sPc, sRes, hErr, hCancelled,
                   srvShutdown, deadlineExpired, reqVars, mainVars, logVars>>

\* ListenAndServe cannot bind its port.
ListenFail ==
    /\ mainPc = "running"
    /\ lPc = "init"
    /\ ~srvShutdown
    /\ LReturn("listen tcp: bind: address already in use")

\* ListenAndServe fails while serving (Accept fails).
ServeFail ==
    /\ mainPc = "running"
    /\ lPc = "serving"
    /\ ~srvShutdown
    /\ LReturn("accept tcp: too many open files")

\* ListenAndServe returns ErrServerClosed once Shutdown was called.
ListenClosed ==
    /\ mainPc = "running"
    /\ lPc \in {"init", "serving"}
    /\ srvShutdown
    /\ LReturn(ErrServerClosed)

\* shutdownOnCancel given the context Run was called with, not the group's.
ShutdownOnCancelCtxOfCaller == "eg"

\* The context shutdownOnCancel waits on: the one errgroup.WithContext
\* returned in Run.
ShutdownOnCancelCtx == "http"

\* shutdownOnCancel: <-ctx.Done() returns and server.Shutdown is called.
ShutdownStart ==
    /\ mainPc = "running"
    /\ sPc = "waiting"
    /\ CtxDone(ShutdownOnCancelCtx)
    /\ sPc' = "shutdown"
    /\ srvShutdown' = TRUE
    /\ UNCHANGED <<hostVars, runVars, rcVars, lPc, lEnd, sRes, hErr, hCancelled,
                   deadlineExpired, reqVars, mainVars, logVars>>

\* The parent of shutdownCtx: context.WithTimeout(context.Background(), 5 s).
ShutdownParent == "background"

\* Time: a request whose context is done ends well within the 5 s deadline; a
\* download to a slow client, or an image-factory call (bounded by 10 s) whose
\* context is not done, may outlast it.
CanOutlast == nStatic > 0 \/ (nBoot > 0 /\ ~ReqCtxDone)

\* How shutdownCtx may end while Shutdown waits for active connections.
ShutdownCtxEnds ==
    (IF CanOutlast THEN {"context deadline exceeded"} ELSE {})
        \cup (IF CtxDone(ShutdownParent) THEN {"context canceled"} ELSE {})

\* shutdownOnCancel dropping Shutdown's error.
ShutdownResultDropped(err) == Nil

\* What shutdownOnCancel returns when Shutdown returned err.
ShutdownResult(err) ==
    IF err # Nil THEN Wrap("failed to shutdown HTTP server", err) ELSE Nil

SReturn(err) ==
    /\ sPc' = "done"
    /\ sRes' = ShutdownResult(err)
    /\ HRecord(ShutdownResult(err))
    /\ UNCHANGED <<hostVars, runVars, rcVars, lPc, lEnd, srvShutdown, reqVars,
                   mainVars, logVars>>

\* Shutdown returns nil: no connection is active any more.
ShutdownOK ==
    /\ mainPc = "running"
    /\ sPc = "shutdown"
    /\ nBoot + nStatic = 0
    /\ UNCHANGED deadlineExpired
    /\ SReturn(Nil)

\* Shutdown returns shutdownCtx's error: connections are still active.
ShutdownFail ==
    /\ mainPc = "running"
    /\ sPc = "shutdown"
    /\ nBoot + nStatic > 0
    /\ \E err \in ShutdownCtxEnds :
          /\ deadlineExpired' = (deadlineExpired \/ err = "context deadline exceeded")
          /\ SReturn(err)

\* eg.Wait() of the HTTP server's Run returns: Run returns the group's error.
HTTPReturn ==
    /\ mainPc = "running"
    /\ tpc["server"] = "running"
    /\ lPc = "done"
    /\ sPc = "done"
    /\ Return("server", hErr)
    /\ UNCHANGED <<hostVars, runVars, started, egCancelled, egErr, httpSrvVars,
                   reqVars, mainVars, logVars>>

----------------------------------------------------------------------------
(* Requests in flight at the HTTP server *)

Accepting == lPc = "serving" /\ ~srvShutdown /\ nBoot + nStatic < MaxInflight

\* A boot.ipxe request arrives and its handler calls the image factory.
BootArrive ==
    /\ mainPc = "running"
    /\ Accepting
    /\ nBoot' = nBoot + 1
    /\ UNCHANGED <<hostVars, runVars, rcVars, httpSrvVars, nStatic, mainVars, logVars>>

\* The image factory answers, or the call's own 10 s timeout ends it.
BootFinish ==
    /\ mainPc = "running"
    /\ nBoot > 0
    /\ ~ReqCtxDone
    /\ nBoot' = nBoot - 1
    /\ UNCHANGED <<hostVars, runVars, rcVars, httpSrvVars, nStatic, mainVars, logVars>>

\* The request's context is done: the image-factory call is aborted.
BootAbort ==
    /\ mainPc = "running"
    /\ nBoot > 0
    /\ ReqCtxDone
    /\ nBoot' = nBoot - 1
    /\ UNCHANGED <<hostVars, runVars, rcVars, httpSrvVars, nStatic, mainVars, logVars>>

\* A connection whose handler does not watch its context becomes active.
StaticArrive ==
    /\ mainPc = "running"
    /\ Accepting
    /\ nStatic' = nStatic + 1
    /\ UNCHANGED <<hostVars, runVars, rcVars, httpSrvVars, nBoot, mainVars, logVars>>

StaticFinish ==
    /\ mainPc = "running"
    /\ nStatic > 0
    /\ nStatic' = nStatic - 1
    /\ UNCHANGED <<hostVars, runVars, rcVars, httpSrvVars, nBoot, mainVars, logVars>>

----------------------------------------------------------------------------
(* main *)

\* Every listener is running: all components started, the HTTP server serving.
AllRunning ==
    /\ runPc = "components"
    /\ started = Len(components)
    /\ \A t \in Range(components) : tpc[t] = "running"
    /\ lPc = "serving"
    /\ sPc = "waiting"

\* SIGINT or SIGTERM: signal.NotifyContext cancels the root context.
Signal ==
    /\ mainPc = "running"
    /\ ~sigCancelled
    /\ sigCancelled' = TRUE
    /\ sigAllRunning' = AllRunning
    /\ sigInflight' = (AllRunning /\ nBoot + nStatic > 0)
    /\ UNCHANGED <<hostVars, runVars, rcVars, httpSrvVars, reqVars, mainPc, exitCode,
                   logVars>>

\* main: log.Fatalf exits with status 1; a nil error ends main with status 0.
ExitCodeOf(err) == IF err = Nil THEN 0 ELSE 1

Exit ==
    /\ mainPc = "running"
    /\ runPc = "returned"
    /\ mainPc' = "exited"
    /\ exitCode' = ExitCodeOf(runResult)
    /\ UNCHANGED <<hostVars, runVars, rcVars, httpSrvVars, reqVars, sigCancelled,
                   sigAllRunning, sigInflight, logVars>>

Next ==
    \/ Run
    \/ EgGo
    \/ \E t \in PlainComponents : TaskFail(t)
    \/ \E t \in PlainComponents : TaskExit(t)
    \/ \E t \in PlainComponents : TaskStop(t)
    \/ \E t \in AllComponents : EgRecord(t)
    \/ Wait
    \/ ListenOK
    \/ ListenFail
    \/ ServeFail
    \/ ListenClosed
    \/ ShutdownStart
    \/ ShutdownOK
    \/ ShutdownFail
    \/ HTTPReturn
    \/ BootArrive
    \/ BootFinish
    \/ BootAbort
    \/ StaticArrive
    \/ StaticFinish
    \/ Signal
    \/ Exit

Spec == Init /\ [][Next]_vars

\* The steps the Go scheduler and the listeners' own code guarantee to happen
\* once Server.Run is past its start; failures, requests, the clients' pace and
\* the signal are left to the environment.
Fairness ==
    /\ WF_vars(EgGo)
    /\ WF_vars(\E t \in PlainComponents : TaskStop(t))
    /\ WF_vars(\E t \in AllComponents : EgRecord(t))
    /\ WF_vars(Wait)
    /\ WF_vars(ListenOK \/ ListenFail)
    /\ WF_vars(ListenClosed)
    /\ WF_vars(ShutdownStart)
    /\ WF_vars(ShutdownOK)
    /\ WF_vars(ShutdownFail)
    /\ WF_vars(HTTPReturn)
    /\ WF_vars(BootAbort)
    /\ WF_vars(Exit)

FairSpec == Spec /\ Fairness

\* The server started with its default options, with or without the DHCP
\* proxy, on a host with one routable address.
InitDefault ==
    /\ options \in {[DefaultOptions EXCEPT !.DisableDHCPProxy = d] : d \in BOOLEAN}
    /\ cmdline = CmdLineOf(options)
    /\ routable = [err |-> Nil, ips |-> <<"10.0.0.7">>]
    /\ patchFailAt = 0
    /\ patchEnv = RoomyPatchEnv
    /\ IdlePatch
    /\ IdleRun
    /\ IdleSupervisor
    /\ dhcpLog = << >>
    /\ httpLog = << >>
    /\ configLog = << >>
    /\ pending = << >>

FairSpecDefault == InitDefault /\ [][Next]_vars /\ Fairness

----------------------------------------------------------------------------
(* The server with all its listeners running *)

\* The state once Server.Run has started every component of a host and
\* command line on which startup succeeds, and the HTTP server is serving.
ServingWith(o, r, env) ==
    \E b \in {Startup(o, r, 0, env)} :
       /\ options = o
       /\ cmdline = CmdLineOf(o)
       /\ routable = r
       /\ patchFailAt = 0
       /\ patchEnv = env
       /\ IdlePatch
       /\ b.err = Nil
       /\ runPc = "components"
       /\ runResult = Nil
       /\ handler = b.handler
       /\ machineConfig = b.machineConfig
       /\ routes = b.routes
       /\ dhcpProxy = b.proxy
       /\ components = b.components
       /\ tftpRoot = b.written
       /\ started = Len(b.components)
       /\ tpc = [t \in AllComponents |->
                    IF t \in Range(b.components) THEN "running" ELSE "absent"]
       /\ res = [t \in AllComponents |-> Nil]
       /\ retOrder = << >>
       /\ rcCancelled = FALSE
       /\ egCancelled = FALSE
       /\ egErr = Nil
       /\ lPc = "serving"
       /\ lEnd = ""
       /\ sPc = "waiting"
       /\ sRes = Nil
       /\ hErr = Nil
       /\ hCancelled = FALSE
       /\ srvShutdown = FALSE
       /\ deadlineExpired = FALSE
       /\ nBoot = 0
       /\ nStatic = 0
       /\ sigCancelled = FALSE
       /\ mainPc = "running"
       /\ exitCode = 0
       /\ sigAllRunning = FALSE
       /\ sigInflight = FALSE

Serving(o, r) == ServingWith(o, r, RoomyPatchEnv)

SingleRoutable == [err |-> Nil, ips |-> <<"10.0.0.7">>]

----------------------------------------------------------------------------
(* The DHCP proxy's per-packet decision *)

\* Option 93 of the packets of the model; -1: the option is absent.
ArchChoices == {-1, 0, 6, 7, 9, 10, 11}

UserClassChoices == {"", "iPXE", "gPXE"}

Packets ==
    [ msgType : {"DISCOVER", "REQUEST"},
      xid : {7},
      arch : ArchChoices,
      userClass : UserClassChoices ]

NoReply == [msgType |-> "none"]

\* The firmware class of a client system architecture (option 93).
ArchClassDefaultEFI(arch) ==
    CASE arch \in {0, 6} -> "bios-x86"
      [] arch \in {11} -> "efi-arm64"
      [] OTHER -> "efi-x86_64"

ArchClass(arch) ==
    CASE arch \in {0, 6} -> "bios-x86"
      [] arch \in {7, 9} -> "efi-x86_64"
      [] arch \in {11} -> "efi-arm64"
      [] OTHER -> "unknown"

\* The boot filename of a reply.
BootFileName(proxy, class, userClass) ==
    IF userClass = "iPXE"
    THEN "http://" \o JoinHostPort(proxy.advertiseIP, Itoa(proxy.apiPort))
            \o "/" \o IPXEURLPath \o "/" \o initScriptName
    ELSE CASE class = "bios-x86" -> "undionly.kpxe"
           [] class = "efi-x86_64" -> "ipxe.efi"
           [] class = "efi-arm64" -> "ipxe-arm64.efi"

\* The proxy's answer to a packet, or NoReply.
HandlePacket(proxy, pkt) ==
    LET class == ArchClass(pkt.arch)
    IN IF class = "unknown"
       THEN NoReply
       ELSE [ msgType |-> IF pkt.msgType = "DISCOVER" THEN "OFFER" ELSE "ACK",
              xid |-> pkt.xid,
              yiaddr |-> "0.0.0.0",
              siaddr |-> proxy.advertiseIP,
              serverID |-> proxy.advertiseIP,
              vendorClass |-> "PXEClient",
              bootFile |-> BootFileName(proxy, class, pkt.userClass) ]

\* The proxy's model runs with the advertise address given (scenario S1).
DHCPOptions ==
    { [DefaultOptions EXCEPT !.APIAdvertiseAddress = "10.0.0.5"] }

InitDHCP ==
    /\ \E o \in DHCPOptions : Serving(o, SingleRoutable)
    /\ dhcpLog = << >>
    /\ httpLog = << >>
    /\ configLog = << >>
    /\ pending = << >>

\* The proxy handles one packet.
DHCPReceive(pkt) ==
    /\ dhcpProxy.set
    /\ tpc["DHCP proxy"] = "running"
    /\ Len(dhcpLog) < MaxPackets
    /\ dhcpLog' = Append(dhcpLog, [pkt |-> pkt, reply |-> HandlePacket(dhcpProxy, pkt)])
    /\ UNCHANGED <<hostVars, runVars, rcVars, httpSrvVars, reqVars, mainVars, httpLog,
                   configLog, pending>>

NextDHCP == \E pkt \in Packets : DHCPReceive(pkt)

SpecDHCP == InitDHCP /\ [][NextDHCP]_vars

----------------------------------------------------------------------------
(* The iPXE HTTP handler and the image-factory client *)

archArm64 == "arm64"

archAmd64 == "amd64"

\* fmt.Sprintf(ipxeScriptTemplateFormat, ipxeURL)
ipxeScriptTemplateFormat(ipxeURL) == "#!ipxe\nchain --replace " \o ipxeURL \o "\n"

\* The arch query values of the model; "" is also what query.Get gives for an
\* absent parameter.
ArchQueryChoices == {"", "i386", "x86_64", "amd64", "arm64", "aarch64"}

\* How the image factory answers SchematicCreate: Nil, or the client's error.
UpstreamChoices == {Nil, "POST /schematics: 500 Internal Server Error", "context deadline exceeded"}

\* The uuid and mac query values: both given, or both absent.
IdentityChoices ==
    { [uuid |-> "abc", mac |-> "aa-bb-cc-dd-ee-ff"], [uuid |-> "", mac |-> ""] }

IPXERequests ==
    { [ script |-> "boot.ipxe", uuid |-> id.uuid, mac |-> id.mac, arch |-> a,
        upstream |-> u ] :
        id \in IdentityChoices, a \in ArchQueryChoices, u \in UpstreamChoices }
    \cup
    [ script : {"init.ipxe", "undionly.kpxe", "BOOT.IPXE", ""},
      uuid : {""},
      mac : {""},
      arch : {""},
      upstream : {Nil} ]

\* The switch with a default case that does not return.
scriptCaseFallthrough(script) ==
    CASE script = initScriptName -> "init"
      [] OTHER -> "boot"

\* ServeHTTP: switch req.PathValue("script")
scriptCase(script) ==
    CASE script = initScriptName -> "init"
      [] script = bootScriptName -> "boot"
      [] OTHER -> "default"

\* ServeHTTP passing the query value on as it came.
NormalizeArchKeep(arch) == arch

\* ServeHTTP's arch, treating aarch64 as arm64 too.
NormalizeArchAarch64(arch) ==
    IF arch \in {archArm64, "aarch64"} THEN archArm64 ELSE archAmd64

\* ServeHTTP: if arch != archArm64 { arch = archAmd64 }
NormalizeArch(arch) ==
    IF arch # archArm64 THEN archAmd64 ELSE arch

\* The console args chosen without looking at the arch.
consoleKernelArgsSerial(arch) ==
    <<"console=tty0", "console=ttyS0">>

consoleKernelArgs(arch) ==
    IF arch = archArm64
    THEN <<"console=tty0", "console=ttyAMA0">>
    ELSE <<"console=tty0", "console=ttyS0">>

\* The image factory's SchematicCreate: the ID is a function of the
\* schematic's content.
SchematicCreate(extensions, extraKernelArgs, upstream) ==
    IF upstream # Nil
    THEN [id |-> "", err |-> upstream]
    ELSE [id |-> "id{" \o Join(extensions, ",") \o "}{" \o Join(extraKernelArgs, " ") \o "}",
          err |-> Nil]

\* SchematicIPXEURL building the URL on the factory's base URL.
SchematicIPXEURLBaseURL(c, talosVersion, arch, extensions, extraKernelArgs, upstream) ==
    IF talosVersion = ""
    THEN [url |-> "", err |-> "talosVersion is required"]
    ELSE LET created == SchematicCreate(extensions, extraKernelArgs, upstream)
             ipxeURL == c.baseURL \o "/pxe/" \o created.id \o "/" \o talosVersion
                            \o "/metal-" \o arch
         IN IF created.err # Nil
            THEN [url |-> "", err |-> Wrap("failed to create schematic", created.err)]
            ELSE [url |-> IF c.secureBootEnabled
                          THEN ipxeURL \o "-secureboot"
                          ELSE ipxeURL,
                  err |-> Nil]

\* Client.SchematicIPXEURL
SchematicIPXEURL(c, talosVersion, arch, extensions, extraKernelArgs, upstream) ==
    IF talosVersion = ""
    THEN [url |-> "", err |-> "talosVersion is required"]
    ELSE LET created == SchematicCreate(extensions, extraKernelArgs, upstream)
             ipxeURL == c.pxeBaseURL \o "/pxe/" \o created.id \o "/" \o talosVersion
                            \o "/metal-" \o arch
         IN IF created.err # Nil
            THEN [url |-> "", err |-> Wrap("failed to create schematic", created.err)]
            ELSE [url |-> IF c.secureBootEnabled
                          THEN ipxeURL \o "-secureboot"
                          ELSE ipxeURL,
                  err |-> Nil]

\* bootViaFactoryIPXEScript returning the status without the error.
bootViaFactoryIPXEScriptNoErr(h, talosVersion, arch, extensions, kernelArgs, upstream) ==
    LET got == SchematicIPXEURL(h.imageFactoryClient, talosVersion, arch, extensions,
                                kernelArgs, upstream)
    IN IF got.err # Nil
       THEN [body |-> "", statusCode |-> 500, err |-> Nil]
       ELSE [body |-> ipxeScriptTemplateFormat(got.url), statusCode |-> 200, err |-> Nil]

\* Handler.bootViaFactoryIPXEScript
bootViaFactoryIPXEScript(h, talosVersion, arch, extensions, kernelArgs, upstream) ==
    LET got == SchematicIPXEURL(h.imageFactoryClient, talosVersion, arch, extensions,
                                kernelArgs, upstream)
    IN IF got.err # Nil
       THEN [body |-> "", statusCode |-> 500,
             err |-> Wrap("failed to get schematic IPXE URL", got.err)]
       ELSE [body |-> ipxeScriptTemplateFormat(got.url), statusCode |-> 200, err |-> Nil]

NoCall == [made |-> FALSE]

\* A slice of kernel args a request holds: its elements are its own, or, when
\* shared, the first len elements of the handler's kernelArgs array.
OwnSlice(elems) == [shared |-> FALSE, len |-> Len(elems), own |-> elems]

\* handler.kernelArgs grown in place: append(handler.kernelArgs, extra...)
\* writes extra into the array's spare capacity when it fits.
appendInPlace(kernelArgs, spare, extra) ==
    IF Len(extra) <= Len(spare)
    THEN [ slice |-> [shared |-> TRUE, len |-> Len(kernelArgs) + Len(extra), own |-> << >>],
           spare |-> extra \o SubSeq(spare, Len(extra) + 1, Len(spare)) ]
    ELSE [ slice |-> OwnSlice(kernelArgs \o extra), spare |-> spare ]

\* slices.Concat(handler.kernelArgs, extra): a new array holding the elements
\* of both; the handler's array, spare capacity included, is only read.
slicesConcat(kernelArgs, spare, extra) ==
    [ slice |-> OwnSlice(kernelArgs \o extra), spare |-> spare ]

\* The elements of a slice of kernel args, read through the handler h.
Elements(h, slice) ==
    IF slice.shared
    THEN SubSeq(h.kernelArgs \o h.kernelArgsSpare, 1, slice.len)
    ELSE slice.own

\* Handler.ServeHTTP from its call of bootViaFactoryIPXEScript on: the call of
\* the image-factory client it made, and what it wrote.
ServeBoot(h, req, kernelArgs) ==
    LET arch == NormalizeArch(req.arch)
        client == SchematicIPXEURL(h.imageFactoryClient, h.options.TalosVersion, arch,
                                   h.options.Extensions, kernelArgs, req.upstream)
        call == [ made |-> TRUE,
                  talosVersion |-> h.options.TalosVersion,
                  arch |-> arch,
                  extensions |-> h.options.Extensions,
                  kernelArgs |-> kernelArgs,
                  id |-> SchematicCreate(h.options.Extensions, kernelArgs,
                                         req.upstream).id,
                  url |-> client.url,
                  err |-> client.err ]
        got == bootViaFactoryIPXEScript(h, h.options.TalosVersion, arch,
                                        h.options.Extensions, kernelArgs, req.upstream)
    IN IF got.err # Nil
       THEN [call |-> call, status |-> 500, contentType |-> "",
             body |-> "failed to get iPXE script: " \o got.err]
       ELSE [call |-> call, status |-> got.statusCode, contentType |-> "",
             body |-> got.body]

\* Handler.ServeHTTP: the call of the image-factory client it made, and what
\* it wrote: the status, the Content-Type header it set and the body.
ServeHTTP(h, req) ==
    IF scriptCase(req.script) = "default"
    THEN [call |-> NoCall, status |-> 404, contentType |-> "", body |-> ""]
    ELSE IF scriptCase(req.script) = "init"
    THEN [call |-> NoCall, status |-> 200, contentType |-> "text/plain",
          body |-> Bytes(h.initScript)]
    ELSE LET concat == slicesConcat(h.kernelArgs, h.kernelArgsSpare,
                                    consoleKernelArgs(NormalizeArch(req.arch)))
         IN ServeBoot(h, req, Elements(h, concat.slice))

\* A config handler that adds the machine's uuid to what it serves.
ConfigServeHTTPPerMachine(config, req) ==
    [ servedBy |-> "/config", status |-> 200, body |-> config \o "# " \o req.u \o "\n" ]

\* config.Handler.ServeHTTP
ConfigServeHTTP(config, req) ==
    [ servedBy |-> "/config", status |-> 200, body |-> config ]

\* http.NotFound, the multiplexer's answer to a path no pattern matches.
MuxNotFound ==
    [ servedBy |-> "", status |-> 404, body |-> "404 page not found\n" ]

ConfigRequests == [ u : {"", "abc", "def"} ]

HTTPOptions ==
    { [DefaultOptions EXCEPT !.OmniSiderolinkAPIURL = u,
                             !.ExtraKernelArgs = k,
                             !.SecureBootEnabled = b] :
        u \in {"", "https://omni.example?jointoken=t"},
        k \in ExtraKernelArgsChoices,
        b \in BOOLEAN }
    \cup { [DefaultOptions EXCEPT !.TalosVersion = ""] }
    \cup { [DefaultOptions EXCEPT !.APIAdvertiseAddress = "10.0.0.5",
                                  !.APIPort = 8080,
                                  !.OmniSiderolinkAPIURL = u] :
             u \in {"", "https://omni.example?jointoken=t"} }

InitHTTP ==
    /\ \/ \E o \in HTTPOptions : Serving(o, SingleRoutable)
       \/ \E env \in {TightBufferPatchEnv, ExactPatchEnv} :
             ServingWith(DefaultOptions, SingleRoutable, env)
    /\ dhcpLog = << >>
    /\ httpLog = << >>
    /\ configLog = << >>
    /\ pending = << >>

\* The multiplexer hands a request for /ipxe/{script} to the handler.
IPXEServe(req) ==
    /\ lPc = "serving"
    /\ "/ipxe/{script}" \in routes
    /\ Len(httpLog) + Len(configLog) < MaxRequests
    /\ httpLog' = Append(httpLog, [req |-> req, resp |-> ServeHTTP(handler, req)])
    /\ UNCHANGED <<hostVars, runVars, rcVars, httpSrvVars, reqVars, mainVars, dhcpLog,
                   configLog, pending>>

\* The multiplexer hands a request for /config to the config handler when the
\* pattern is registered; no other pattern matches the path.
ConfigServe(req) ==
    /\ lPc = "serving"
    /\ Len(httpLog) + Len(configLog) < MaxRequests
    /\ configLog' = Append(configLog,
            [ req |-> req,
              resp |-> IF "/config" \in routes
                       THEN ConfigServeHTTP(machineConfig, req)
                       ELSE MuxNotFound ])
    /\ UNCHANGED <<hostVars, runVars, rcVars, httpSrvVars, reqVars, mainVars, dhcpLog,
                   httpLog, pending>>

NextHTTP ==
    \/ \E req \in IPXERequests : IPXEServe(req)
    \/ \E req \in ConfigRequests : ConfigServe(req)

SpecHTTP == InitHTTP /\ [][NextHTTP]_vars

----------------------------------------------------------------------------
(* Claims about the supervisor *)

\* C1: once the goroutine of any component has returned, with an error or with
\* nil, the context the components were run with is cancelled, so every
\* component still waiting on it sees it done.
C1_CancelOnAnyReturn ==
    \A t \in AllComponents : tpc[t] \in {"returned", "done"} => CtxDone("eg")

\* A listener ended cleanly on its own, first, with no signal; another is still
\* running and its context is done.
C1_Witness ==
    \E t, u \in AllComponents :
        /\ retOrder = <<t>>
        /\ res[t] = Nil
        /\ ~sigCancelled
        /\ tpc[u] = "running"
        /\ CtxDone("eg")

\* C2: runComponents has not returned while a component it started is not done.
C2_ReturnAfterAllTasks ==
    (runPc = "returned" /\ components # << >>)
        => \A t \in Range(components) : tpc[t] = "done"

\* runComponents returned after a component failed and the others were waited for.
C2_Witness ==
    /\ runPc = "returned"
    /\ Len(components) = 3
    /\ Len(retOrder) = 3
    /\ res[retOrder[1]] # Nil

\* The first component, in the order of return, whose comp.run returned an error.
FirstFailed ==
    LET failed == {i \in DOMAIN retOrder : res[retOrder[i]] # Nil}
        first == CHOOSE i \in failed : \A j \in failed : i <= j
    IN retOrder[first]

\* C3: runComponents returns nil exactly when every component returned nil, and
\* otherwise the wrapped error of the component that was first to return one.
C3_FirstErrorReturned ==
    (runPc = "returned" /\ components # << >>)
        => /\ (runResult = Nil) <=> (\A t \in Range(components) : res[t] = Nil)
           /\ runResult # Nil
                => runResult = Wrap("failed to run components", res[FirstFailed])

NoListenerFailed ==
    /\ lEnd # "error"
    /\ \A t \in PlainComponents : res[t] = Nil

\* C4 as stated: after a signal that arrived while all listeners were running,
\* Server.Run returns nil and the process exits with 0.
C4_SignalExitsZero ==
    (sigAllRunning /\ mainPc = "exited") => (runResult = Nil /\ exitCode = 0)

\* C4 amended: after such a signal the process exits; it exits with 0 exactly
\* when the graceful shutdown ended before its deadline and no listener failed
\* on its own, and with 1 otherwise.
C4_SignalExit ==
    /\ [](sigAllRunning /\ mainPc = "exited"
            => /\ exitCode = 0 <=> (~deadlineExpired /\ NoListenerFailed)
               /\ exitCode \in {0, 1}
               /\ \A t \in Range(components) : tpc[t] = "done")
    /\ (sigAllRunning ~> mainPc = "exited")

\* The signal arrived with requests in flight and the process exited with 0.
C4_Witness == sigInflight /\ mainPc = "exited" /\ exitCode = 0

\* C5: Shutdown is called only once the context of the HTTP server's Run is
\* done; it fails only by its own deadline; when it failed Run returns an
\* error, and when it succeeded and ListenAndServe ended with ErrServerClosed
\* Run returns nil.
C5_GracefulShutdown ==
    /\ srvShutdown => CtxDone("http")
    /\ sRes # Nil => deadlineExpired
    /\ tpc["server"] \in {"returned", "done"}
         => /\ sRes # Nil => res["server"] # Nil
            /\ (sRes = Nil /\ lEnd = "closed") => res["server"] = Nil

\* The context was cancelled while serving, Shutdown succeeded, Run returned nil.
C5_Witness ==
    /\ tpc["server"] = "done"
    /\ srvShutdown
    /\ lEnd = "closed"
    /\ sRes = Nil
    /\ res["server"] = Nil

\* C6: whenever a shutdown has begun, the context of a boot.ipxe request in its
\* image-factory call is done, so the call is aborted.
C6_ShutdownAbortsFactoryCall ==
    (srvShutdown /\ nBoot > 0) => ReqCtxDone

\* C9: the init script the handler serves and every patched artifact holds is
\* rendered with the address and port the DHCP proxy was given.
C9_SameAdvertiseAddress ==
    (handler # NoHandler /\ dhcpProxy.set)
        => LET script == buildInitScript(dhcpProxy.advertiseIP, dhcpProxy.apiPort)
           IN /\ Bytes(handler.initScript) = script
              /\ \A a \in tftpRoot :
                    a.script = script \o Join([i \in 1..(patchEnv.space - Len(script)) |-> "\n"], "")
              /\ Cardinality(tftpRoot) = Len(PatchSteps)

\* A start with the advertise address discovered, not given.
C9_Witness ==
    /\ handler # NoHandler
    /\ dhcpProxy.set
    /\ options.APIAdvertiseAddress = ""
    /\ dhcpProxy.advertiseIP = "10.0.0.7"

\* C7: every reply the proxy has sent, whatever packets came before, has
\* yiaddr 0.0.0.0, vendor class PXEClient, next-server the advertise address
\* Server.Run resolved, and the boot filename of the table: the init script's
\* URL for user class iPXE, else the TFTP name of the firmware class.
C7_ProxyReplies ==
    \A i \in 1..Len(dhcpLog) :
        LET pkt == dhcpLog[i].pkt
            reply == dhcpLog[i].reply
            advertise == handler.options.APIAdvertiseAddress
        IN reply # NoReply =>
            /\ reply.yiaddr = "0.0.0.0"
            /\ reply.vendorClass = "PXEClient"
            /\ reply.siaddr = advertise
            /\ reply.bootFile =
                    IF pkt.userClass = "iPXE"
                    THEN "http://" \o advertise \o ":" \o ToString(options.APIPort)
                            \o "/ipxe/init.ipxe"
                    ELSE CASE pkt.arch \in {0, 6} -> "undionly.kpxe"
                           [] pkt.arch \in {7, 9} -> "ipxe.efi"
                           [] pkt.arch = 11 -> "ipxe-arm64.efi"
                           [] OTHER -> "no boot file"

C7_Witness ==
    /\ Len(dhcpLog) = 3
    /\ \A i \in 1..3 : dhcpLog[i].reply # NoReply
    /\ dhcpLog[1].pkt.msgType = "DISCOVER" /\ dhcpLog[1].reply.bootFile = "undionly.kpxe"
    /\ dhcpLog[2].pkt.msgType = "REQUEST" /\ dhcpLog[2].reply.bootFile = "ipxe-arm64.efi"
    /\ dhcpLog[3].pkt.userClass = "iPXE"

\* C8: a packet whose option 93 is absent or outside {0, 6, 7, 9, 11} got no
\* reply, and a packet is answered the same whatever was handled before it:
\* equal packets of the log have equal replies.
C8_UnknownArchDropped ==
    /\ \A i \in 1..Len(dhcpLog) :
            dhcpLog[i].pkt.arch \notin {0, 6, 7, 9, 11} => dhcpLog[i].reply = NoReply
    /\ \A i, j \in 1..Len(dhcpLog) :
            dhcpLog[i].pkt = dhcpLog[j].pkt => dhcpLog[i].reply = dhcpLog[j].reply

C8_Witness ==
    /\ Len(dhcpLog) = 3
    /\ dhcpLog[1].pkt = dhcpLog[3].pkt
    /\ dhcpLog[1].reply # NoReply
    /\ dhcpLog[2].pkt.arch = 10
    /\ dhcpLog[2].reply = NoReply
    /\ dhcpLog[3].reply = dhcpLog[1].reply

\* C10: for every boot.ipxe request served, the arch handed to the image-factory
\* client is arm64 exactly when the arch query value is the literal "arm64", and
\* amd64 for every other value.
C10_ArchNormalized ==
    \A i \in 1..Len(httpLog) :
        httpLog[i].req.script = "boot.ipxe" =>
            /\ httpLog[i].resp.call.made
            /\ httpLog[i].resp.call.arch =
                    IF httpLog[i].req.arch = "arm64" THEN "arm64" ELSE "amd64"

C10_Witness ==
    /\ Len(httpLog) = 2
    /\ httpLog[1].req.script = "boot.ipxe" /\ httpLog[1].req.arch = "aarch64"
    /\ httpLog[1].resp.call.arch = "amd64"
    /\ httpLog[2].req.script = "boot.ipxe" /\ httpLog[2].req.arch = "arm64"
    /\ httpLog[2].resp.call.arch = "arm64"

----------------------------------------------------------------------------
(* Claims about the HTTP handlers *)

\* C11: a boot.ipxe request whose image-factory call returned a URL got status
\* 200 and exactly "#!ipxe\nchain --replace {url}\n"; one whose call failed got
\* status 500 and the error's message as body; and whether a request's call
\* succeeds depends on that request's upstream answer alone, not on earlier
\* failures.
C11_BootResponse ==
    \A i \in 1..Len(httpLog) :
        httpLog[i].req.script = "boot.ipxe" =>
            LET c == httpLog[i].resp.call
                resp == httpLog[i].resp
            IN /\ c.made
               /\ c.err = Nil <=> (httpLog[i].req.upstream = Nil /\ options.TalosVersion # "")
               /\ c.err = Nil =>
                    /\ resp.status = 200
                    /\ resp.body = "#!ipxe\nchain --replace " \o c.url \o "\n"
               /\ c.err # Nil =>
                    /\ resp.status = 500
                    /\ resp.body = "failed to get iPXE script: "
                            \o "failed to get schematic IPXE URL: " \o c.err

\* A failed boot.ipxe request followed by one that is served.
C11_Witness ==
    /\ Len(httpLog) = 2
    /\ httpLog[1].req.script = "boot.ipxe" /\ httpLog[1].resp.status = 500
    /\ httpLog[1].req.upstream = "context deadline exceeded"
    /\ httpLog[2].req.script = "boot.ipxe" /\ httpLog[2].resp.status = 200

\* C12: a request for a script other than init.ipxe and boot.ipxe got status
\* 404, and no image-factory call was made for it.
C12_UnknownScript404 ==
    \A i \in 1..Len(httpLog) :
        httpLog[i].req.script \notin {"init.ipxe", "boot.ipxe"} =>
            /\ httpLog[i].resp.status = 404
            /\ ~httpLog[i].resp.call.made

\* Two requests whose names are not served: the upper-case one and the empty one.
C12_Witness ==
    /\ Len(httpLog) = 2
    /\ httpLog[1].req.script = "BOOT.IPXE" /\ httpLog[1].resp.status = 404
    /\ httpLog[2].req.script = "" /\ httpLog[2].resp.status = 404

\* C13: every init.ipxe request got status 200, Content-Type text/plain and
\* the script as rendered at construction from the handler's address and port,
\* without the padding patchScript appended for the binaries.
C13_InitScriptServed ==
    \A i \in 1..Len(httpLog) :
        httpLog[i].req.script = "init.ipxe" =>
            /\ httpLog[i].resp.status = 200
            /\ httpLog[i].resp.contentType = "text/plain"
            /\ httpLog[i].resp.body
                    = buildInitScript(handler.options.APIAdvertiseAddress,
                                      handler.options.APIPort)

\* The padding was written into the backing array of the handler's script, the
\* artifacts hold the padded script, and the script was served twice.
C13_Witness ==
    /\ Len(httpLog) = 2
    /\ httpLog[1].req.script = "init.ipxe"
    /\ httpLog[2].req.script = "init.ipxe"
    /\ Len(handler.initScript.array) > 1
    /\ handler.initScript.array[2] = "\n"
    /\ \E a \in tftpRoot : Len(a.script) = Len(httpLog[1].resp.body) + 2

\* C14 as stated: the kernel args sent are the user's, then the console args,
\* then the talos.config argument when machine-config serving is enabled.
C14_ArgsOrderAsStated ==
    \A i \in 1..Len(httpLog) :
        httpLog[i].req.script = "boot.ipxe" =>
            httpLog[i].resp.call.kernelArgs
                = Fields(options.ExtraKernelArgs)
                    \o <<"console=tty0",
                         IF httpLog[i].req.arch = "arm64"
                         THEN "console=ttyAMA0" ELSE "console=ttyS0">>
                    \o (IF options.OmniSiderolinkAPIURL # ""
                        THEN <<"talos.config=http://" \o handler.options.APIAdvertiseAddress
                                \o ":" \o ToString(options.APIPort) \o "/config?u=${uuid}">>
                        ELSE << >>)

\* C14 amended: the kernel args sent are the user's, then the talos.config
\* argument when machine-config serving is enabled, then the console args of
\* the normalized arch.
C14_ArgsOrder ==
    \A i \in 1..Len(httpLog) :
        httpLog[i].req.script = "boot.ipxe" =>
            httpLog[i].resp.call.kernelArgs
                = Fields(options.ExtraKernelArgs)
                    \o (IF options.OmniSiderolinkAPIURL # ""
                        THEN <<"talos.config=http://" \o handler.options.APIAdvertiseAddress
                                \o ":" \o ToString(options.APIPort) \o "/config?u=${uuid}">>
                        ELSE << >>)
                    \o <<"console=tty0",
                         IF httpLog[i].req.arch = "arm64"
                         THEN "console=ttyAMA0" ELSE "console=ttyS0">>

\* A boot.ipxe request served with user args and machine-config serving enabled.
C14_Witness ==
    /\ Len(httpLog) >= 1
    /\ httpLog[1].req.script = "boot.ipxe"
    /\ options.OmniSiderolinkAPIURL # ""
    /\ options.ExtraKernelArgs # << >>
    /\ Len(httpLog[1].resp.call.kernelArgs) = 5

\* C15: the kernel args sent for a boot.ipxe request end with console=tty0
\* followed by console=ttyAMA0 when the arch query value is arm64, and by
\* console=ttyS0 otherwise.
C15_ConsoleArgsLast ==
    \A i \in 1..Len(httpLog) :
        httpLog[i].req.script = "boot.ipxe" =>
            LET args == httpLog[i].resp.call.kernelArgs
                n == Len(args)
            IN /\ n >= 2
               /\ args[n - 1] = "console=tty0"
               /\ args[n] = IF httpLog[i].req.arch = "arm64"
                            THEN "console=ttyAMA0" ELSE "console=ttyS0"

\* An arm64 and an i386 request, with machine-config serving enabled.
C15_Witness ==
    /\ Len(httpLog) = 2
    /\ options.OmniSiderolinkAPIURL # ""
    /\ httpLog[1].req.script = "boot.ipxe" /\ httpLog[1].req.arch = "arm64"
    /\ httpLog[2].req.script = "boot.ipxe" /\ httpLog[2].req.arch = "i386"

\* C16: /config is registered exactly when the Omni Siderolink API URL is not
\* empty; a /config request was served by the config handler when it is
\* registered and got the multiplexer's 404 when it is not.
C16_ConfigRouteIffConfigured ==
    /\ "/config" \in routes <=> options.OmniSiderolinkAPIURL # ""
    /\ \A i \in 1..Len(configLog) :
            IF options.OmniSiderolinkAPIURL # ""
            THEN configLog[i].resp.servedBy = "/config"
            ELSE /\ configLog[i].resp.servedBy # "/config"
                 /\ configLog[i].resp.status = 404

\* A /config request on a server started without an Omni Siderolink API URL.
C16_Witness ==
    /\ Len(configLog) = 1
    /\ options.OmniSiderolinkAPIURL = ""
    /\ configLog[1].resp.status = 404

\* C17: every /config request the config handler served got status 200 and
\* the machine configuration built at startup, whatever its u value and
\* whatever was served before it.
C17_ConfigSameForAll ==
    \A i \in 1..Len(configLog) :
        configLog[i].resp.servedBy = "/config" =>
            /\ configLog[i].resp.status = 200
            /\ configLog[i].resp.body = MachineConfigBuild(options.OmniSiderolinkAPIURL).bytes
            /\ \A j \in 1..Len(configLog) : configLog[j].resp = configLog[i].resp

\* Two /config requests with different u values, both served.
C17_Witness ==
    /\ Len(configLog) = 2
    /\ configLog[1].req.u = "abc"
    /\ configLog[2].req.u = "def"
    /\ configLog[1].resp.servedBy = "/config"
    /\ configLog[2].resp.body # ""

\* C18 as stated: an unknown script name, or a boot.ipxe request without
\* uuid, mac or arch, got status 404 or 500.
C18_MalformedNever200 ==
    \A i \in 1..Len(httpLog) :
        LET req == httpLog[i].req
        IN (\/ req.script \notin {"init.ipxe", "boot.ipxe"}
            \/ (req.script = "boot.ipxe" /\ (req.uuid = "" \/ req.mac = "" \/ req.arch = "")))
            => httpLog[i].resp.status \in {404, 500}

\* C18 amended: an unknown script name got 404; a boot.ipxe request without
\* uuid, mac or arch was served like any other: its absent arch taken as
\* amd64, status 200 when the image-factory call succeeded and 500 when not.
C18_MalformedHandling ==
    \A i \in 1..Len(httpLog) :
        LET req == httpLog[i].req
            resp == httpLog[i].resp
        IN /\ req.script \notin {"init.ipxe", "boot.ipxe"} => resp.status = 404
           /\ (req.script = "boot.ipxe" /\ (req.uuid = "" \/ req.mac = "" \/ req.arch = ""))
                => /\ req.arch = "" => resp.call.arch = "amd64"
                   /\ resp.status = IF req.upstream = Nil /\ options.TalosVersion # ""
                                    THEN 200 ELSE 500

\* A boot.ipxe request without any query value got status 200.
C18_Witness ==
    /\ Len(httpLog) >= 1
    /\ httpLog[1].req.script = "boot.ipxe"
    /\ httpLog[1].req.uuid = "" /\ httpLog[1].req.mac = "" /\ httpLog[1].req.arch = ""
    /\ httpLog[1].resp.status = 200

\* C19: a URL SchematicIPXEURL returned is {pxeBaseURL}/pxe/{id}/{version}/
\* metal-{arch} for the id the factory returned, with -secureboot appended
\* exactly when secure boot is enabled; calls with equal arguments that got
\* equal ids returned equal URLs.
C19_SchematicURL ==
    \A i \in 1..Len(httpLog) :
        (httpLog[i].req.script = "boot.ipxe" /\ httpLog[i].resp.call.err = Nil) =>
            LET c == httpLog[i].resp.call
            IN /\ c.url = options.ImageFactoryPXEBaseURL \o "/pxe/" \o c.id \o "/"
                            \o c.talosVersion \o "/metal-" \o c.arch
                            \o (IF options.SecureBootEnabled THEN "-secureboot" ELSE "")
               /\ \A j \in 1..Len(httpLog) :
                    (/\ httpLog[j].req.script = "boot.ipxe"
                     /\ httpLog[j].resp.call.err = Nil
                     /\ httpLog[j].resp.call.arch = c.arch)
                        => httpLog[j].resp.call.url = c.url

\* With secure boot enabled, two calls for the same arch returned a URL.
C19_Witness ==
    /\ Len(httpLog) = 2
    /\ options.SecureBootEnabled
    /\ httpLog[1].req.script = "boot.ipxe" /\ httpLog[1].resp.call.err = Nil
    /\ httpLog[2].req.script = "boot.ipxe" /\ httpLog[2].resp.call.err = Nil
    /\ httpLog[1].resp.call.arch = httpLog[2].resp.call.arch
    /\ httpLog[1].req.arch # httpLog[2].req.arch

----------------------------------------------------------------------------
(* Claims about the startup *)

\* C20: once Server.Run is past its start: with no advertise address given and
\* exactly one routable address, that address is the one the handler and the
\* proxy are built with; with none given and no or several routable addresses
\* (or none obtainable), Server.Run has returned the error of the address
\* discovery, with no artifact written and no component started; with an
\* address given, that address is used and whether the start succeeds does not
\* depend on the host's addresses.
C20_AdvertiseDiscovery ==
    runPc # "init" =>
        LET given == options.APIAdvertiseAddress # ""
            one == routable.err = Nil /\ Len(routable.ips) = 1
            restOK == /\ options.OmniSiderolinkAPIURL # "%zz"
                      /\ patchFailAt = 0
                      /\ patchEnv.space >= ScriptLen
            address == IF given THEN options.APIAdvertiseAddress ELSE routable.ips[1]
        IN IF given \/ one
           THEN /\ handler # NoHandler <=> restOK
                /\ handler # NoHandler => handler.options.APIAdvertiseAddress = address
                /\ dhcpProxy.set => dhcpProxy.advertiseIP = address
           ELSE /\ runPc = "returned"
                /\ runResult \in
                     { "failed to determine API advertise address: "
                         \o "failed to get routable IPs: netlink: permission denied",
                       "failed to determine API advertise address: "
                         \o "expected exactly one routable IP, got 0: []. "
                         \o "specify API advertise address explicitly",
                       "failed to determine API advertise address: "
                         \o "expected exactly one routable IP, got 2: [10.0.0.7 192.168.1.2]. "
                         \o "specify API advertise address explicitly" }
                /\ handler = NoHandler
                /\ tftpRoot = {}
                /\ started = 0
                /\ \A t \in AllComponents : tpc[t] = "absent"
                /\ lPc = "idle"

\* With no address given and two routable addresses, Server.Run returned an
\* error.
C20_Witness ==
    /\ options.APIAdvertiseAddress = ""
    /\ routable.err = Nil
    /\ Len(routable.ips) = 2
    /\ runPc = "returned"
    /\ runResult # Nil
    /\ mainPc = "exited"

----------------------------------------------------------------------------
(* main: from the parsed command line to the started server *)

\* The values of --extra-kernel-args and of EXTRA_KERNEL_ARGS, and the
\* positional arguments, of the model.
FlagChoices == {<< >>, <<"a=1">>, <<"a=1", " ", "b=2">>}

EnvChoices == {<< >>, <<"e=1">>, <<"e=1", " ", "e=2">>}

ArgsChoices ==
    { << >>, << <<"p=1">> >>, << <<"p=1">>, <<"q=2">> >>, << << >> >>,
      << <<"p=1", " ", "q=2">>, <<"r=3">> >> }

CmdLines == [flag : FlagChoices, env : EnvChoices, args : ArgsChoices]

\* The flags are parsed into serverOptions and RunE is about to call run.
InitMain ==
    /\ cmdline \in CmdLines
    /\ options = [DefaultOptions EXCEPT !.ExtraKernelArgs = cmdline.flag]
    /\ routable = SingleRoutable
    /\ patchFailAt = 0
    /\ patchEnv = RoomyPatchEnv
    /\ IdlePatch
    /\ IdleRun
    /\ started = 0
    /\ tpc = [t \in AllComponents |-> "absent"]
    /\ res = [t \in AllComponents |-> Nil]
    /\ retOrder = << >>
    /\ rcCancelled = FALSE
    /\ egCancelled = FALSE
    /\ egErr = Nil
    /\ lPc = "idle"
    /\ lEnd = ""
    /\ sPc = "idle"
    /\ sRes = Nil
    /\ hErr = Nil
    /\ hCancelled = FALSE
    /\ srvShutdown = FALSE
    /\ deadlineExpired = FALSE
    /\ nBoot = 0
    /\ nStatic = 0
    /\ sigCancelled = FALSE
    /\ mainPc = "parsed"
    /\ exitCode = 0
    /\ sigAllRunning = FALSE
    /\ sigInflight = FALSE
    /\ dhcpLog = << >>
    /\ httpLog = << >>
    /\ configLog = << >>
    /\ pending = << >>

\* run, up to its call of Server.Run: the extra kernel args are resolved and
\* stored in serverOptions, which server.New is given.
run ==
    /\ mainPc = "parsed"
    /\ mainPc' = "running"
    /\ options' = [options EXCEPT !.ExtraKernelArgs =
                        getExtraKernelArgs(options.ExtraKernelArgs, cmdline.env,
                                           cmdline.args)]
    /\ UNCHANGED <<cmdline, routable, patchFailAt, patchEnv, patchVars, runVars, rcVars,
                   httpSrvVars, reqVars, sigCancelled, exitCode, sigAllRunning,
                   sigInflight, logVars>>

NextMain ==
    \/ run
    \/ Run

SpecMain == InitMain /\ [][NextMain]_vars

----------------------------------------------------------------------------
(* Claims about main *)

----------------------------------------------------------------------------
(* Claims about the artifacts *)

\* C22: when a step of patchBinaries fails on a start that got that far,
\* Server.Run has returned the error of that step, wrapped by patchBinaries
\* and by Server.Run; only the artifacts of the steps before it were written;
\* no handler exists and no component was started.  And whenever a component
\* was started, every artifact has been written.
C22_PatchFailureAborts ==
    LET reached == /\ (options.APIAdvertiseAddress # ""
                        \/ (routable.err = Nil /\ Len(routable.ips) = 1))
                   /\ options.OmniSiderolinkAPIURL # "%zz"
        tooSmall == patchEnv.space < ScriptLen
        stop == IF tooSmall THEN 1 ELSE patchFailAt
        files == {a.file : a \in tftpRoot}
    IN /\ (runPc # "init" /\ reached /\ stop # 0) =>
            /\ runPc = "returned"
            /\ runResult = "failed to create iPXE handler: " \o PatchStepErrors[stop] \o ": "
                    \o (IF tooSmall
                        THEN "script size " \o ToString(ScriptLen)
                                \o " is larger than placeholder space "
                                \o ToString(patchEnv.space)
                        ELSE StepFailure(stop))
            /\ files = {PatchSteps[i] : i \in 1..(stop - 1)}
            /\ handler = NoHandler
            /\ started = 0
            /\ \A t \in AllComponents : tpc[t] = "absent"
            /\ lPc = "idle"
       /\ (started > 0 \/ lPc # "idle" \/ \E t \in AllComponents : tpc[t] # "absent") =>
            /\ files = Range(PatchSteps)
            /\ handler # NoHandler

\* The first compression failed: five artifacts were written and the process
\* exited with 1.
C22_Witness ==
    /\ patchFailAt = 6
    /\ patchEnv = RoomyPatchEnv
    /\ runPc = "returned"
    /\ Cardinality(tftpRoot) = 5
    /\ mainPc = "exited"
    /\ exitCode = 1

----------------------------------------------------------------------------
(* patchScript, byte by byte *)

placeholderStart ==
    << "#", " ", "*", "P", "L", "A", "C", "E", "H", "O", "L", "D", "E", "R", " ",
       "S", "T", "A", "R", "T", "*" >>

placeholderEnd ==
    << "#", " ", "*", "P", "L", "A", "C", "E", "H", "O", "L", "D", "E", "R", " ",
       "E", "N", "D", "*" >>

\* The offsets (from 0) at which sep occurs in s.
Occurrences(s, sep) ==
    {i \in 0..(Len(s) - Len(sep)) : SubSeq(s, i + 1, i + Len(sep)) = sep}

\* bytes.Index: the offset of the first occurrence of sep in s, or -1.
Index(s, sep) ==
    IF Occurrences(s, sep) = {} THEN -1
    ELSE CHOOSE i \in Occurrences(s, sep) : \A j \in Occurrences(s, sep) : i <= j

\* bytes.LastIndex: the offset of the last occurrence of sep in s, or -1.
LastIndex(s, sep) ==
    IF Occurrences(s, sep) = {} THEN -1
    ELSE CHOOSE i \in Occurrences(s, sep) : \A j \in Occurrences(s, sep) : i >= j

\* bytes.Repeat([]byte{'\n'}, n)
Newlines(n) == [i \in 1..n |-> "\n"]

\* contents with the bytes at the offsets start..(end - 1) replaced by the
\* first bytes of with: copy(contents[start:end], with).
CopyInto(contents, start, end, with) ==
    [i \in 1..Len(contents) |->
        IF i > start /\ i <= end /\ i - start <= Len(with)
        THEN with[i - start] ELSE contents[i]]

\* The path of the source, as the errors print it.
SourcePath == "/var/lib/ipxe/amd64/ipxe.efi"

\* What the file system does to the call: nothing, or it fails os.ReadFile,
\* os.MkdirAll or os.WriteFile.
IOChoices == {"ok", "read", "mkdir", "write"}

NoBuffer == << >>

\* The result of patchScript that returns err before it reaches os.WriteFile.
Failed(err) == [err |-> err, reached |-> FALSE, buffer |-> NoBuffer]

\* patchScript taking the last occurrence of the end marker.
patchScriptLastEnd(contents, script, io) ==
    IF io = "read"
    THEN Failed("open " \o SourcePath \o ": no such file or directory")
    ELSE LET start == Index(contents, placeholderStart)
             endMarker == LastIndex(contents, placeholderEnd)
             end == endMarker + Len(placeholderEnd)
             length == end - start
         IN IF start = -1
            THEN Failed("placeholder start not found in \"" \o SourcePath \o "\"")
            ELSE IF endMarker = -1
            THEN Failed("placeholder end not found in \"" \o SourcePath \o "\"")
            ELSE IF endMarker < start
            THEN Failed("placeholder end before start")
            ELSE IF Len(script) > length
            THEN Failed("script size " \o ToString(Len(script))
                            \o " is larger than placeholder space " \o ToString(length))
            ELSE IF io = "mkdir"
            THEN Failed("mkdir /var/lib/tftp: permission denied")
            ELSE [ err |-> IF io = "write" THEN "write: no space left on device" ELSE Nil,
                   reached |-> TRUE,
                   buffer |-> CopyInto(contents, start, end,
                                       script \o Newlines(length - Len(script))) ]

\* patchScript refusing a script that fills the region exactly.
patchScriptStrict(contents, script, io) ==
    IF io = "read"
    THEN Failed("open " \o SourcePath \o ": no such file or directory")
    ELSE LET start == Index(contents, placeholderStart)
             endMarker == Index(contents, placeholderEnd)
             end == endMarker + Len(placeholderEnd)
             length == end - start
         IN IF start = -1
            THEN Failed("placeholder start not found in \"" \o SourcePath \o "\"")
            ELSE IF endMarker = -1
            THEN Failed("placeholder end not found in \"" \o SourcePath \o "\"")
            ELSE IF endMarker < start
            THEN Failed("placeholder end before start")
            ELSE IF Len(script) >= length
            THEN Failed("script size " \o ToString(Len(script))
                            \o " is larger than placeholder space " \o ToString(length))
            ELSE IF io = "mkdir"
            THEN Failed("mkdir /var/lib/tftp: permission denied")
            ELSE [ err |-> IF io = "write" THEN "write: no space left on device" ELSE Nil,
                   reached |-> TRUE,
                   buffer |-> CopyInto(contents, start, end,
                                       script \o Newlines(length - Len(script))) ]

\* patchScript writing between the markers and keeping them.
patchScriptBetween(contents, script, io) ==
    IF io = "read"
    THEN Failed("open " \o SourcePath \o ": no such file or directory")
    ELSE LET startMarker == Index(contents, placeholderStart)
             start == startMarker + Len(placeholderStart)
             end == Index(contents, placeholderEnd)
             length == end - start
         IN IF startMarker = -1
            THEN Failed("placeholder start not found in \"" \o SourcePath \o "\"")
            ELSE IF end = -1
            THEN Failed("placeholder end not found in \"" \o SourcePath \o "\"")
            ELSE IF end < startMarker
            THEN Failed("placeholder end before start")
            ELSE IF Len(script) > length
            THEN Failed("script size " \o ToString(Len(script))
                            \o " is larger than placeholder space " \o ToString(length))
            ELSE IF io = "mkdir"
            THEN Failed("mkdir /var/lib/tftp: permission denied")
            ELSE [ err |-> IF io = "write" THEN "write: no space left on device" ELSE Nil,
                   reached |-> TRUE,
                   buffer |-> CopyInto(contents, start, end,
                                       script \o Newlines(length - Len(script))) ]

\* patchScript putting the script in the place of the region, without padding.
patchScriptSplice(contents, script, io) ==
    IF io = "read"
    THEN Failed("open " \o SourcePath \o ": no such file or directory")
    ELSE LET start == Index(contents, placeholderStart)
             endMarker == Index(contents, placeholderEnd)
             end == endMarker + Len(placeholderEnd)
             length == end - start
         IN IF start = -1
            THEN Failed("placeholder start not found in \"" \o SourcePath \o "\"")
            ELSE IF endMarker = -1
            THEN Failed("placeholder end not found in \"" \o SourcePath \o "\"")
            ELSE IF endMarker < start
            THEN Failed("placeholder end before start")
            ELSE IF Len(script) > length
            THEN Failed("script size " \o ToString(Len(script))
                            \o " is larger than placeholder space " \o ToString(length))
            ELSE IF io = "mkdir"
            THEN Failed("mkdir /var/lib/tftp: permission denied")
            ELSE [ err |-> IF io = "write" THEN "write: no space left on device" ELSE Nil,
                   reached |-> TRUE,
                   buffer |-> SubSeq(contents, 1, start) \o script
                                \o SubSeq(contents, end + 1, Len(contents)) ]

\* patchScript(source, destination, script) for a source holding contents:
\* the error it returns, whether it reached os.WriteFile, and the buffer it
\* handed to it.
patchScript(contents, script, io) ==
    IF io = "read"
    THEN Failed("open " \o SourcePath \o ": no such file or directory")
    ELSE LET start == Index(contents, placeholderStart)
             endMarker == Index(contents, placeholderEnd)
             end == endMarker + Len(placeholderEnd)
             length == end - start
         IN IF start = -1
            THEN Failed("placeholder start not found in \"" \o SourcePath \o "\"")
            ELSE IF endMarker = -1
            THEN Failed("placeholder end not found in \"" \o SourcePath \o "\"")
            ELSE IF endMarker < start
            THEN Failed("placeholder end before start")
            ELSE IF Len(script) > length
            THEN Failed("script size " \o ToString(Len(script))
                            \o " is larger than placeholder space " \o ToString(length))
            ELSE IF io = "mkdir"
            THEN Failed("mkdir /var/lib/tftp: permission denied")
            ELSE [ err |-> IF io = "write" THEN "write: no space left on device" ELSE Nil,
                   reached |-> TRUE,
                   buffer |-> CopyInto(contents, start, end,
                                       script \o Newlines(length - Len(script))) ]

\* The most pieces a source of the model is made of.
MaxPieces == 4

\* Bytes of a binary that are no part of a marker.
Filler == <<"x", "y">>

RECURSIVE Concat(_)
\* The concatenation of a sequence of byte sequences.
Concat(pieces) ==
    IF pieces = << >> THEN << >> ELSE Head(pieces) \o Concat(Tail(pieces))

\* The sources of the model: up to MaxPieces markers and fillers in any order.
Sources ==
    { Concat(ps) : ps \in UNION { [1..n -> {placeholderStart, placeholderEnd, Filler}] :
                                     n \in 1..MaxPieces } }

\* The script of n bytes: the first line of the template, then other bytes.
ScriptOf(n) ==
    [i \in 1..n |-> IF i <= 7 THEN <<"#", "!", "i", "p", "x", "e", "\n">>[i] ELSE "a"]

\* The scripts of the model: a short one, and those around the size of the
\* smallest regions.
Scripts ==
    LET smallest == Len(placeholderStart) + Len(placeholderEnd)
    IN {ScriptOf(n) : n \in {7} \cup smallest..(smallest + 3)}

InitPatch ==
    /\ srcContents \in Sources
    /\ scriptBytes \in Scripts
    /\ dest = NoFile
    /\ patchRet = "pending"
    /\ options = DefaultOptions
    /\ cmdline = CmdLineOf(DefaultOptions)
    /\ routable = SingleRoutable
    /\ patchFailAt = 0
    /\ patchEnv = RoomyPatchEnv
    /\ IdleRun
    /\ IdleSupervisor
    /\ dhcpLog = << >>
    /\ httpLog = << >>
    /\ configLog = << >>
    /\ pending = << >>

\* One call of patchScript.  A failed os.WriteFile may have created the file,
\* and written part of the buffer.
PatchScript ==
    /\ patchRet = "pending"
    /\ \E io \in IOChoices :
         \E r \in {patchScript(srcContents, scriptBytes, io)} :
            /\ patchRet' = r.err
            /\ dest' \in IF ~r.reached THEN {NoFile}
                          ELSE IF r.err = Nil THEN {[exists |-> TRUE, bytes |-> r.buffer]}
                          ELSE { NoFile,
                                 [exists |-> TRUE, bytes |-> << >>],
                                 [exists |-> TRUE,
                                  bytes |-> SubSeq(r.buffer, 1, Len(r.buffer) \div 2)] }
    /\ UNCHANGED <<options, cmdline, routable, patchFailAt, patchEnv, srcContents,
                   scriptBytes, runVars, rcVars, httpSrvVars, reqVars, mainVars, logVars>>

NextPatch == PatchScript

SpecPatch == InitPatch /\ [][NextPatch]_vars

----------------------------------------------------------------------------
(* Claims about patchScript *)

\* The errors of the file system, which a call may return whatever the bytes.
IOErrors ==
    { "open " \o SourcePath \o ": no such file or directory",
      "mkdir /var/lib/tftp: permission denied",
      "write: no space left on device" }

\* C23: a call on a source without a start marker, without an end marker, or
\* whose first end marker lies before its first start marker has returned an
\* error (that of the first of these checks to fail, unless the source could
\* not be read), and there is no file at the destination.
C23_MarkerErrors ==
    LET starts == Occurrences(srcContents, placeholderStart)
        ends == Occurrences(srcContents, placeholderEnd)
        unreadable == "open " \o SourcePath \o ": no such file or directory"
        expected ==
            IF starts = {}
            THEN "placeholder start not found in \"" \o SourcePath \o "\""
            ELSE IF ends = {}
            THEN "placeholder end not found in \"" \o SourcePath \o "\""
            ELSE "placeholder end before start"
    IN (/\ patchRet # "pending"
        /\ \/ starts = {}
           \/ ends = {}
           \/ \E e \in ends : (\A s \in starts : e < s) /\ (\A f \in ends : e <= f))
        => /\ patchRet \in {expected, unreadable}
           /\ dest = NoFile

\* An end marker, a start marker and an end marker again: the call failed.
C23_Witness ==
    /\ srcContents = placeholderEnd \o placeholderStart \o placeholderEnd
    /\ patchRet = "placeholder end before start"
    /\ dest = NoFile

\* C24: for a source whose first start marker is at start and whose first end
\* marker is at end, not before it, with region = end - start + len(end
\* marker): a call with a longer script has returned the size error (unless
\* the source could not be read) and there is no file at the destination; a
\* call with a script of at most region bytes has failed by the file system
\* only, and when it succeeded the region of the output holds the script
\* followed by region - len(script) newlines.
C24_RegionFilled ==
    LET start == Index(srcContents, placeholderStart)
        end == Index(srcContents, placeholderEnd)
        region == end - start + Len(placeholderEnd)
        n == Len(scriptBytes)
    IN (patchRet # "pending" /\ start # -1 /\ end # -1 /\ end >= start) =>
        IF n > region
        THEN /\ patchRet \in { "script size " \o ToString(n)
                                  \o " is larger than placeholder space "
                                  \o ToString(region),
                                "open " \o SourcePath \o ": no such file or directory" }
             /\ dest = NoFile
        ELSE /\ patchRet \in {Nil} \cup IOErrors
             /\ patchRet = Nil =>
                    /\ dest.exists
                    /\ \A i \in 1..region :
                          dest.bytes[start + i] = IF i <= n THEN scriptBytes[i] ELSE "\n"

\* A script of exactly the region's size was patched in, and the region ends
\* with the script's last byte.
C24_Witness ==
    /\ srcContents = placeholderStart \o Filler \o placeholderEnd \o Filler
    /\ Len(scriptBytes) = Len(placeholderStart) + Len(Filler) + Len(placeholderEnd)
    /\ patchRet = Nil
    /\ dest.bytes[Len(scriptBytes)] = "a"
    /\ dest.bytes[Len(scriptBytes) + 1] = "x"

\* C25 as stated: after a successful patch the output contains a start marker
\* and an end marker after it, and the bytes after that start marker begin
\* with #!ipxe.
C25_MarkersKept ==
    patchRet = Nil =>
        \E s \in Occurrences(dest.bytes, placeholderStart) :
            /\ \E e \in Occurrences(dest.bytes, placeholderEnd) : s < e
            /\ Len(dest.bytes) >= s + Len(placeholderStart) + 6
            /\ SubSeq(dest.bytes, s + Len(placeholderStart) + 1,
                       s + Len(placeholderStart) + 6) = <<"#", "!", "i", "p", "x", "e">>

\* C25 amended: after a successful patch the byte range that the first start
\* marker and the first end marker of the source delimited, the markers
\* included, begins with #!ipxe in the output, and the markers of the output
\* are those of the source that lie outside that range: the two markers, and
\* whatever else the range held, are overwritten.
C25_RegionHoldsScript ==
    LET start == Index(srcContents, placeholderStart)
        end == Index(srcContents, placeholderEnd) + Len(placeholderEnd)
    IN patchRet = Nil =>
        /\ SubSeq(dest.bytes, start + 1, start + 6) = <<"#", "!", "i", "p", "x", "e">>
        /\ \A m \in {placeholderStart, placeholderEnd} :
              Occurrences(dest.bytes, m)
                = {o \in Occurrences(srcContents, m) : o + Len(m) <= start \/ o >= end}

\* A source with one marker of each kind was patched: the output has none.
C25_Witness ==
    /\ srcContents = Filler \o placeholderStart \o Filler \o placeholderEnd
    /\ patchRet = Nil
    /\ Occurrences(dest.bytes, placeholderStart) = {}
    /\ Occurrences(dest.bytes, placeholderEnd) = {}

\* C26: a call on a source in which a marker occurs more than once has
\* returned an error.
C26_UniqueMarkers ==
    (/\ patchRet # "pending"
     /\ \/ Cardinality(Occurrences(srcContents, placeholderStart)) > 1
        \/ Cardinality(Occurrences(srcContents, placeholderEnd)) > 1)
        => patchRet # Nil

\* C30: after a successful patch the output has the length of the source, and
\* every byte before the first start marker and from the end of the first end
\* marker on is the byte of the source.
C30_OutsideUntouched ==
    LET start == Index(srcContents, placeholderStart)
        end == Index(srcContents, placeholderEnd) + Len(placeholderEnd)
    IN patchRet = Nil =>
        /\ dest.exists
        /\ Len(dest.bytes) = Len(srcContents)
        /\ \A i \in 1..Len(srcContents) :
              (i <= start \/ i > end) => dest.bytes[i] = srcContents[i]

\* A short script was patched into a source with bytes before and after the
\* region.
C30_Witness ==
    /\ srcContents = Filler \o placeholderStart \o placeholderEnd \o Filler
    /\ Len(scriptBytes) = 7
    /\ patchRet = Nil
    /\ SubSeq(dest.bytes, 1, 2) = Filler
    /\ SubSeq(dest.bytes, Len(dest.bytes) - 1, Len(dest.bytes)) = Filler

----------------------------------------------------------------------------
(* Claims about the HTTP server's Run *)

\* C27: once ListenAndServe has failed on its own, the HTTP server's Run
\* eventually returns, whether or not anything else cancels its context; and
\* when it has returned, it returned that failure wrapped, never nil and never
\* the error of the shutdown.
C27_ListenerFailureEndsRun ==
    /\ [](lEnd = "error" =>
            /\ hErr \in { "failed to run server: listen tcp: bind: address already in use",
                           "failed to run server: accept tcp: too many open files" }
            /\ hCancelled
            /\ tpc["server"] \in {"returned", "done"} => res["server"] = hErr)
    /\ (lEnd = "error" ~> tpc["server"] \in {"returned", "done"})

\* The port could not be bound, no signal came and no other component had
\* returned: Run has returned the bind error.
C27_Witness ==
    /\ lEnd = "error"
    /\ ~sigCancelled
    /\ retOrder # << >>
    /\ retOrder[1] = "server"
    /\ sPc = "done"
    /\ res["server"] = "failed to run server: listen tcp: bind: address already in use"


----------------------------------------------------------------------------
(* boot.ipxe requests served concurrently by one handler *)

ConcRequests ==
    { [ script |-> "boot.ipxe", uuid |-> "abc", mac |-> "", arch |-> a, upstream |-> Nil ] :
        a \in {"arm64", "amd64", "i386"} }

ConcOptions ==
    { [DefaultOptions EXCEPT !.OmniSiderolinkAPIURL = u, !.ExtraKernelArgs = k] :
        u \in {"", "https://omni.example?jointoken=t"},
        k \in ExtraKernelArgsChoices }

InitConc ==
    /\ \E o \in ConcOptions, env \in {RoomyPatchEnv, SpareArgsEnv(2)} :
          ServingWith(o, SingleRoutable, env)
    /\ dhcpLog = << >>
    /\ httpLog = << >>
    /\ configLog = << >>
    /\ pending = << >>

\* A request's goroutine runs ServeHTTP up to the slice of its kernel args.
ServeHTTPConcat(req) ==
    /\ lPc = "serving"
    /\ "/ipxe/{script}" \in routes
    /\ Len(pending) + Len(httpLog) < MaxRequests
    /\ \E c \in {slicesConcat(handler.kernelArgs, handler.kernelArgsSpare,
                               consoleKernelArgs(NormalizeArch(req.arch)))} :
          /\ handler' = [handler EXCEPT !.kernelArgsSpare = c.spare]
          /\ pending' = Append(pending, [req |-> req, kernelArgs |-> c.slice])
    /\ UNCHANGED <<hostVars, runPc, runResult, machineConfig, routes, dhcpProxy,
                   components, tftpRoot, rcVars, httpSrvVars, reqVars, mainVars,
                   dhcpLog, httpLog, configLog>>

\* The goroutine of the i-th request in flight runs the rest of ServeHTTP: it
\* reads its kernel args and answers.
ServeHTTPBoot(i) ==
    /\ i \in 1..Len(pending)
    /\ httpLog' = Append(httpLog,
            [ req |-> pending[i].req,
              resp |-> ServeBoot(handler, pending[i].req,
                                 Elements(handler, pending[i].kernelArgs)),
              beside |-> {NormalizeArch(pending[j].req.arch) :
                            j \in (1..Len(pending)) \ {i}} ])
    /\ pending' = SubSeq(pending, 1, i - 1) \o SubSeq(pending, i + 1, Len(pending))
    /\ UNCHANGED <<hostVars, runVars, rcVars, httpSrvVars, reqVars, mainVars,
                   dhcpLog, configLog>>

NextConc ==
    \/ \E req \in ConcRequests : ServeHTTPConcat(req)
    \/ \E i \in 1..MaxRequests : ServeHTTPBoot(i)

SpecConc == InitConc /\ [][NextConc]_vars

----------------------------------------------------------------------------
(* Claims about concurrent boot requests *)

\* The console args of the architectures other than arch.
ForeignConsoleArgs(arch) ==
    UNION {Range(consoleKernelArgs(a)) : a \in {archArm64, archAmd64}}
        \ Range(consoleKernelArgs(arch))

\* C28: however boot.ipxe requests interleave, the handler's kernel-arg list,
\* its backing array included, stays what NewHandler built, and the kernel
\* args of every request, in flight or answered, are that list followed by
\* the console args of the request's own architecture, with no console arg
\* of another architecture among them.
C28_KernelArgsIsolated ==
    /\ handler = Startup(options, routable, 0, patchEnv).handler
    /\ \A i \in 1..Len(pending) :
          LET arch == NormalizeArch(pending[i].req.arch)
              args == Elements(handler, pending[i].kernelArgs)
          IN /\ args = handler.kernelArgs \o consoleKernelArgs(arch)
             /\ Range(args) \cap ForeignConsoleArgs(arch) = {}
    /\ \A i \in 1..Len(httpLog) :
          LET arch == NormalizeArch(httpLog[i].req.arch)
              args == httpLog[i].resp.call.kernelArgs
          IN /\ args = handler.kernelArgs \o consoleKernelArgs(arch)
             /\ Range(args) \cap ForeignConsoleArgs(arch) = {}

\* An arm64 request was answered after an amd64 request that was in flight
\* beside it had built its kernel args, on a handler whose kernel-arg array
\* has room for two more elements.
C28_Witness ==
    /\ Len(handler.kernelArgsSpare) = 2
    /\ Len(handler.kernelArgs) > 1
    /\ \E i \in 1..Len(httpLog) :
          /\ httpLog[i].resp.call.made
          /\ httpLog[i].resp.call.arch = archArm64
          /\ archAmd64 \in httpLog[i].beside
          /\ httpLog[i].resp.status = 200


----------------------------------------------------------------------------
(* Claims about the config URL *)

\* The talos.config argument that points a machine at the /config route of
\* the server started from opts on a host with the given routable addresses.
ConfigArgOf(opts, r) ==
    "talos.config=http://" \o determineAPIAdvertiseAddress(opts, r).addr \o ":"
        \o ToString(opts.APIPort) \o "/config?u=${uuid}"

\* The arguments of the model that set talos.config.
ConfigArgs ==
    {ConfigArgOf(o, r) : o \in HTTPOptions, r \in {SingleRoutable}}

====
